---- MODULE Spec2Model ----
(***************************************************************************)
(* claude-swarm, Fly Machines deployment: the dual-layer recycling of      *)
(* agent machines.                                                         *)
(*                                                                         *)
(*   HeartbeatReporter  (agent/heartbeat.ts)   lease renewal, markDone     *)
(*   runner main        (agent/runner.ts)      start, task, mark, close    *)
(*   MachineReaper      (orchestrator/reaper.ts) the sweep loop            *)
(*   getOrCreateSession (orchestrator/orchestrator.ts of the Fly           *)
(*                       deployment, called by the HTTP server)            *)
(*                                                                         *)
(* Redis and the Fly Machines API are the environment.  Every Redis        *)
(* command is atomic at the server; a client's commands are applied in the *)
(* order it issued them (one connection per client); commands of different *)
(* clients interleave freely.  A command or HTTP request is "in flight"    *)
(* from the step that issues it to the step in which the server applies it *)
(* and the issuer's continuation runs.                                     *)
(*                                                                         *)
(* Time is a global discrete clock `now`, in units of one                  *)
(* heartbeatInterval of the default configuration (10 s).  Timers fire at  *)
(* their due time; a key written with TTL d at time t is gone at t + d.    *)
(***************************************************************************)
EXTENDS Integers, Sequences, FiniteSets

\* ---------------------------------------------------------------- bounds
\* The configuration surface (README "Configuration"), in clock units.
heartbeatInterval == 1
heartbeatTtl == 3
reaperInterval == 2
maxTurnTimeout == 3
\* Grace added to maxTurnTimeout for the TTL of the session->machine mapping.
mappingGrace == 1
\* TTL of the terminal status record: "EX", 3600 (seconds), in clock units.
statusTtl == 360

\* The clock stops here.
MaxTime == 4
\* Redis commands one reporter may have in flight.
MaxQueue == 3

Sessions == {"s1", "s2"}
\* The session the callers of getOrCreateSession ask for.
Requested == {"s1"}
\* Machines the Fly app can hold over a run.
MachineIds == {1, 2}
\* setTimeout callbacks of the reaper that may be pending at once.
TimerIds == {1, 2}
\* Sweeps that may be in flight at once.
SweepIds == {1, 2}
\* Callers of getOrCreateSession; each makes one call.
Callers == {1, 2}

NoTimer == -1
NoLease == [started_at |-> -1, exp |-> -1]
NoStatus == [val |-> "nil", exp |-> -1]
NoMapping == [machine_id |-> 0, exp |-> -1]

VARIABLES
  now,        \* the clock
  redis,      \* the registry: heartbeat, status and machine key per session
  machines,   \* the Fly app's machines: id -> [name, state]
  worker,     \* the agent process of each machine (runner main + reporter)
  reaper,     \* MachineReaper: running, timer, and the pending timeouts
  sweeps,     \* the sweep() calls in flight
  calls,      \* the getOrCreateSession calls in flight
  client,     \* a SwarmClient and its pollUntilDone call
  agent,      \* the agent HTTP server of a sandbox
  hist        \* history of the run, read only by the properties

vars == <<now, redis, machines, worker, reaper, sweeps, calls, client, agent,
          hist>>

\* ------------------------------------------------------------- registry
\* GET: a key whose TTL has run out reads as null.
Live(entry, t) == entry.exp > t

\* Redis drops the keys whose TTL has run out.
Expire(r, t) ==
  [heartbeat |-> [s \in Sessions |->
                    IF Live(r.heartbeat[s], t) THEN r.heartbeat[s] ELSE NoLease],
   status    |-> [s \in Sessions |->
                    IF Live(r.status[s], t) THEN r.status[s] ELSE NoStatus],
   machine   |-> [s \in Sessions |->
                    IF Live(r.machine[s], t) THEN r.machine[s] ELSE NoMapping]]

\* A renewal whose payload carries the time of the write as started_at.
SetexHeartbeatRestamps(r, s, startedAt, t) ==
  [r EXCEPT !.heartbeat[s] = [started_at |-> t, exp |-> t + heartbeatTtl]]

\* A renewal that leaves the TTL of an existing lease as it is.
SetexHeartbeatKeepsTtl(r, s, startedAt, t) ==
  [r EXCEPT !.heartbeat[s] =
     IF @ = NoLease THEN [started_at |-> startedAt, exp |-> t + heartbeatTtl]
     ELSE [@ EXCEPT !.started_at = startedAt]]

\* redis.setex(heartbeatKey, heartbeatTtl, payload)
SetexHeartbeat(r, s, startedAt, t) ==
  [r EXCEPT !.heartbeat[s] = [started_at |-> startedAt, exp |-> t + heartbeatTtl]]

\* redis.del(heartbeatKey)
DelHeartbeat(r, s) == [r EXCEPT !.heartbeat[s] = NoLease]

\* redis.set(statusKey, value, "EX", 3600)
SetStatus(r, s, v, t) ==
  [r EXCEPT !.status[s] = [val |-> v, exp |-> t + statusTtl]]

\* redis.del(heartbeat, status, machine): one command, three keys
\* A cleanup that deletes the keys of every session.
DelAllSessions(r, s) ==
  [r EXCEPT !.heartbeat = [x \in Sessions |-> NoLease],
            !.status = [x \in Sessions |-> NoStatus],
            !.machine = [x \in Sessions |-> NoMapping]]

\* A cleanup that leaves a status record of the reclamation behind.
DelAllMarksError(r, s) ==
  [r EXCEPT !.heartbeat[s] = NoLease,
            !.status[s] = [val |-> "error", exp |-> statusTtl],
            !.machine[s] = NoMapping]
DelAll(r, s) ==
  [r EXCEPT !.heartbeat[s] = NoLease, !.status[s] = NoStatus,
            !.machine[s] = NoMapping]

\* -------------------------------------------------- HeartbeatReporter
\* A reporter: pc is the position of runner main, timer the due time of the
\* next setInterval tick (NoTimer: this.timer === null), startedAt the value
\* fixed by the constructor, queue the commands in flight on its connection.
\* lastRenew and lateWrite are history: when the last lease write of this
\* reporter was applied, and whether one was applied after its lease delete.
NoWorker ==
  [pc |-> "none", timer |-> NoTimer, startedAt |-> -1, queue |-> <<>>,
   lastRenew |-> -1, deleted |-> FALSE, lateWrite |-> FALSE]

Alive(w) == w.pc \in {"task", "markDone", "markError"}

\* report("running"): issues the SETEX
report(w) == [w EXCEPT !.queue = Append(@, "setex")]

\* stop(): clearInterval
stop(w) == [w EXCEPT !.timer = NoTimer]

\* new HeartbeatReporter(sessionId); heartbeat.start()
start(t) ==
  [report(NoWorker) EXCEPT !.pc = "task", !.startedAt = t,
                           !.timer = t + heartbeatInterval]

\* markDone() that issues its commands without stopping the timer first.
markDoneKeepsTimer(w) ==
  [w EXCEPT !.pc = "markDone", !.queue = Append(Append(@, "delD"), "setD")]

\* markDone(): stop, then DEL heartbeat and SET status "done"
markDone(w) ==
  [stop(w) EXCEPT !.pc = "markDone",
                  !.queue = Append(Append(@, "delD"), "setD")]

\* markError() that deletes the lease and writes no status.
markErrorNoStatus(w) ==
  [stop(w) EXCEPT !.pc = "markError", !.queue = Append(@, "delE")]
\* markError(err): stop, then DEL heartbeat and SET status {error}
markError(w) ==
  [stop(w) EXCEPT !.pc = "markError",
                  !.queue = Append(Append(@, "delE"), "setE")]

\* close(): stop, then await this.redis.quit()
close(w) == [stop(w) EXCEPT !.pc = "closing", !.queue = Append(@, "quit")]

\* A command of the current mark call is still in flight.
Awaiting(q, cmds) == \E i \in 1..Len(q) : q[i] \in cmds

\* A continuation that takes a failed lease write for fatal: it stops the
\* timer.
settleFatal(w, cmd, ok) ==
  IF cmd = "setex" /\ ~ok THEN stop(w)
  ELSE IF w.pc = "markDone" /\ cmd \in {"delD", "setD"}
  THEN IF ~ok THEN markError(w)
       ELSE IF Awaiting(w.queue, {"delD", "setD"}) THEN w
       ELSE close(w)
  ELSE IF w.pc = "markError" /\ cmd \in {"delE", "setE"}
  THEN IF ok /\ Awaiting(w.queue, {"delE", "setE"}) THEN w
       ELSE [w EXCEPT !.pc = "exited"]
  ELSE IF w.pc = "closing" /\ cmd = "quit" THEN [w EXCEPT !.pc = "closed"]
  ELSE w

\* The continuation of runner main when the reply to `cmd` arrives:
\*   setex        .catch(log): nothing else happens
\*   markDone     Promise.all rejects on the first failure -> catch (err) ->
\*                markError(err); resolves after both replies -> finally
\*                close() ("closing")
\*   quit         close() is through, main returns, the process ends
\*                ("closed")
\*   markError    after both replies, or on the first failure:
\*                process.exit(1) ("exited")
settle(w, cmd, ok) ==
  IF w.pc = "markDone" /\ cmd \in {"delD", "setD"}
  THEN IF ~ok THEN markError(w)
       ELSE IF Awaiting(w.queue, {"delD", "setD"}) THEN w
       ELSE close(w)
  ELSE IF w.pc = "markError" /\ cmd \in {"delE", "setE"}
  THEN IF ok /\ Awaiting(w.queue, {"delE", "setE"}) THEN w
       ELSE [w EXCEPT !.pc = "exited"]
  ELSE IF w.pc = "closing" /\ cmd = "quit" THEN [w EXCEPT !.pc = "closed"]
  ELSE w

\* What Redis does with a reporter's command.
applyCmd(r, s, w, cmd, t) ==
  CASE cmd = "setex"           -> SetexHeartbeat(r, s, w.startedAt, t)
    [] cmd \in {"delD", "delE"} -> DelHeartbeat(r, s)
    [] cmd = "setD"            -> SetStatus(r, s, "done", t)
    [] cmd = "setE"            -> SetStatus(r, s, "error", t)
    [] cmd = "quit"            -> r

\* The machine's process starts: runner main constructs the reporter and
\* calls start(), then awaits the task.
WorkerMain(m) ==
  /\ machines[m].state = "starting"
  /\ machines' = [machines EXCEPT ![m].state = "started"]
  /\ worker' = [worker EXCEPT ![m] = start(now)]
  /\ UNCHANGED <<now, redis, reaper, sweeps, calls, client, agent, hist>>

\* A setInterval tick: report("running"); the interval re-arms itself.
HbTick(m) ==
  /\ Alive(worker[m])
  /\ worker[m].timer # NoTimer
  /\ worker[m].timer <= now
  /\ Len(worker[m].queue) < MaxQueue
  /\ worker' = [worker EXCEPT
       ![m] = [report(worker[m]) EXCEPT !.timer = @ + heartbeatInterval]]
  /\ UNCHANGED <<now, redis, machines, reaper, sweeps, calls, client, agent, hist>>

\* runAgent resolved: await heartbeat.markDone()
TaskReturns(m) ==
  /\ worker[m].pc = "task"
  /\ Len(worker[m].queue) + 2 <= MaxQueue
  /\ worker' = [worker EXCEPT ![m] = markDone(worker[m])]
  /\ UNCHANGED <<now, redis, machines, reaper, sweeps, calls, client, agent, hist>>

\* runAgent threw: catch (err) -> await heartbeat.markError(err)
TaskThrows(m) ==
  /\ worker[m].pc = "task"
  /\ Len(worker[m].queue) + 2 <= MaxQueue
  /\ worker' = [worker EXCEPT ![m] = markError(worker[m])]
  /\ UNCHANGED <<now, redis, machines, reaper, sweeps, calls, client, agent, hist>>

\* The process dies or hangs without a word: no timer fires any more; the
\* machine stays as it is.
Crash(m) ==
  /\ worker[m].pc = "task"
  /\ worker' = [worker EXCEPT ![m].pc = "crashed", ![m].timer = NoTimer]
  /\ UNCHANGED <<now, redis, machines, reaper, sweeps, calls, client, agent, hist>>

\* Redis applies the oldest command in flight of machine m's reporter, or the
\* command fails (registry unreachable); the reply runs the continuation.
RedisApply(m, ok) ==
  /\ worker[m].queue # <<>>
  /\ LET w   == worker[m]
         cmd == Head(w.queue)
         s   == machines[m].name
         w1  == [w EXCEPT
                   !.queue = Tail(@),
                   !.lastRenew = IF ok /\ cmd = "setex" THEN now ELSE @,
                   !.deleted = @ \/ (ok /\ cmd \in {"delD", "delE"}),
                   !.lateWrite = @ \/ (ok /\ cmd = "setex" /\ w.deleted)]
     IN /\ redis' = IF ok THEN applyCmd(redis, s, w, cmd, now) ELSE redis
        /\ worker' = [worker EXCEPT ![m] = settle(w1, cmd, ok)]
        /\ hist' = [hist EXCEPT
             !.regFailed[m] = @ \/ ~ok,
             !.statusWrites[m] =
                IF ok /\ cmd \in {"setD", "setE"} THEN Append(@, cmd) ELSE @,
             !.owed[m] = @ /\ ~(ok /\ cmd = "setex"),
             !.deletedBy[s] =
                IF ~ok THEN @
                ELSE IF cmd = "setex" THEN "none"
                ELSE IF cmd \in {"delD", "delE"} /\ redis.heartbeat[s] # NoLease
                     THEN "worker" ELSE @]
  /\ UNCHANGED <<now, machines, reaper, sweeps, calls, client, agent>>

\* ------------------------------------------------------- Fly platform
\* created -> starting
PlatformBoot(m) ==
  /\ machines[m].state = "created"
  /\ machines' = [machines EXCEPT ![m].state = "starting"]
  /\ UNCHANGED <<now, redis, worker, reaper, sweeps, calls, client, agent, hist>>

\* The agent process has ended: the machine stops.
ProcessExited(m) ==
  /\ worker[m].pc \in {"closed", "exited"}
  /\ machines[m].state = "started"
  /\ machines' = [machines EXCEPT ![m].state = "stopped"]
  /\ UNCHANGED <<now, redis, worker, reaper, sweeps, calls, client, agent, hist>>

\* stopping -> stopped: the process, if any, is killed.
PlatformStopped(m) ==
  /\ machines[m].state = "stopping"
  /\ machines' = [machines EXCEPT ![m].state = "stopped"]
  /\ worker' = [worker EXCEPT
       ![m].pc = IF @ = "none" THEN "none" ELSE "killed", ![m].timer = NoTimer]
  /\ UNCHANGED <<now, redis, reaper, sweeps, calls, client, agent, hist>>

\* auto_destroy: stopped -> destroyed
PlatformDestroyed(m) ==
  /\ machines[m].state = "stopped"
  /\ machines' = [machines EXCEPT ![m].state = "destroyed"]
  /\ UNCHANGED <<now, redis, worker, reaper, sweeps, calls, client, agent, hist>>

\* ------------------------------------------------------ MachineReaper
\* reaper.timer is the handle of the newest setTimeout (0: null);
\* reaper.timeouts holds the due time of every pending callback.
NewReaper ==
  [running |-> FALSE, timer |-> 0, timeouts |-> [i \in TimerIds |-> NoTimer]]

FreeTimers(r) == {i \in TimerIds : r.timeouts[i] = NoTimer}

\* scheduleNext(): this.timer = setTimeout(callback, reaperInterval)
scheduleNext(r, t) ==
  LET id == CHOOSE i \in FreeTimers(r) : \A j \in FreeTimers(r) : i <= j
  IN [r EXCEPT !.timer = id, !.timeouts[id] = t + reaperInterval]

\* A start() without the guard on this.running.
reaperStartUnguarded(r, t) ==
  IF FreeTimers(r) = {} THEN r ELSE scheduleNext([r EXCEPT !.running = TRUE], t)

\* start(): if (this.running) return; this.running = true; scheduleNext()
reaperStart(r, t) ==
  IF r.running THEN r ELSE scheduleNext([r EXCEPT !.running = TRUE], t)

\* A stop() that cancels the timer and leaves the running flag set.
reaperStopKeepsRunning(r) ==
  [r EXCEPT !.timer = 0,
            !.timeouts = IF r.timer = 0 THEN @
                         ELSE [@ EXCEPT ![r.timer] = NoTimer]]

\* stop(): this.running = false; clearTimeout(this.timer); this.timer = null
reaperStop(r) ==
  [r EXCEPT !.running = FALSE,
            !.timer = 0,
            !.timeouts = IF r.timer = 0 THEN @
                         ELSE [@ EXCEPT ![r.timer] = NoTimer]]

\* What was the case when an evaluation read the registry (history):
\*   doneCalled    at the list reply, the worker had its lease written and had
\*                 called markDone()
\*   doneReturned  at the list reply, that markDone() had returned
\*   failedBefore  at the list reply, a stop of this machine had failed in an
\*                 earlier sweep (one not decided "early", see below)
\*   early         at the lease read, no lease write of the worker had been
\*                 applied or had failed yet
\*   sawDel        the lease read found no lease, the worker's DEL having
\*                 deleted it
\*   torn          sawDel, and the status read found no status while the
\*                 worker's SET "done" was still in flight
\*   owed          at the lease read, the keys had been deleted after a failed
\*                 stop and no lease write had been applied since
\*   lease         at the lease read, for a worker that renewed, then ceased
\*                 without terminal status, nothing of it in flight: "expired"
\*                 (TTL of the last renewal run out), "cleaned" (not run out,
\*                 but a reclamation's cleanup deleted the lease), "valid"
\* One evaluateMachine call.  rawHeartbeat is the started_at of the lease it
\* read (-1: null), rawStatus the status it read, at the Date.now() of its
\* decision, stopped the outcome of its stop request, cleaned whether its
\* DEL was applied.  obs is history: what was
\* the case when it read (see the properties).
NoObs ==
  [doneCalled |-> FALSE, doneReturned |-> FALSE,
   failedBefore |-> FALSE, early |-> FALSE,
   sawDel |-> FALSE, torn |-> FALSE, owed |-> FALSE, lease |-> "na",
   orphan |-> FALSE]
NoEval ==
  [pc |-> "none", rawHeartbeat |-> -1, rawStatus |-> "nil", at |-> -1,
   reason |-> "none", stopped |-> "no", cleaned |-> FALSE, obs |-> NoObs]
\* One sweep() call.  err is the error sweep() threw ("list": the list call
\* failed, "read": a registry read of an evaluation failed, "del": its
\* registry delete failed, "none"); once it
\* has thrown, the evaluations still in flight go on by themselves
\* (obs.orphan: the evaluation decided after its sweep() had thrown).
IdleSweep ==
  [pc |-> "idle", err |-> "none", evals |-> [m \in MachineIds |-> NoEval]]

\* listRunningMachines(): the filter on the listed machines
\* Machine names.  A session's machine is named "agent-session-<id>": the
\* model writes <id> for it.  ForeignName is the name of a machine that is
\* not a session's, of the prefix's length before "s1".
ForeignName == "other-machine-s1"

\* A name check that lets every name through.
startsWithAny(name) == TRUE

\* machine.name.startsWith("agent-session-")
startsWithPrefix(name) == name # ForeignName

\* machine.name.slice(prefix.length)
sessionId(name) == IF name = ForeignName THEN "s1" ELSE name

\* The list without the filter on the state.
listAllMachines(ms) ==
  {m \in MachineIds : ms[m].state # "none"}

\* listRunningMachines(): the machines of the app in state started or starting
listRunningMachines(ms) ==
  {m \in MachineIds : ms[m].state = "started" \/ ms[m].state = "starting"}

\* The decision with the budget compared by >= instead of >.
DecideAtBudget(rawStatus, rawHeartbeat, t) ==
  IF rawStatus = "done" THEN "task_done"
  ELSE IF rawHeartbeat = -1 THEN "heartbeat_lost"
  ELSE IF t - rawHeartbeat >= maxTurnTimeout THEN "timeout"
  ELSE "none"

\* The decision without the wall-clock test.
DecideIgnoresBudget(rawStatus, rawHeartbeat, t) ==
  IF rawStatus = "done" THEN "task_done"
  ELSE IF rawHeartbeat = -1 THEN "heartbeat_lost"
  ELSE "none"

\* evaluateMachine: the decision, first match wins ("none": leave it alone)
Decide(rawStatus, rawHeartbeat, t) ==
  IF rawStatus = "done" THEN "task_done"
  ELSE IF rawHeartbeat = -1 THEN "heartbeat_lost"
  ELSE IF t - rawHeartbeat > maxTurnTimeout THEN "timeout"
  ELSE "none"

\* killMachine that returns without the cleanup when the stop failed.
afterStopSkipsCleanup(e, ok) ==
  [e EXCEPT !.pc = IF ok THEN "del" ELSE "done",
            !.stopped = IF ok THEN "ok" ELSE "failed"]

\* killMachine after the stop request has returned: the registry cleanup is
\* issued whether or not the stop succeeded.
afterStop(e, ok) ==
  [e EXCEPT !.pc = "del", !.stopped = IF ok THEN "ok" ELSE "failed"]

\* A sweep that is through only once an evaluation is.
FinishedSome(sw) ==
  /\ \A m \in MachineIds : sw.evals[m].pc \in {"none", "done", "failed"}
  /\ \E m \in MachineIds : sw.evals[m].pc \in {"done", "failed"}

Finished(sw) ==
  \A m \in MachineIds : sw.evals[m].pc \in {"none", "done", "failed"}

\* A callback that lets the loop end when sweep() throws.
afterSweepErrorStops(r, t) == [r EXCEPT !.running = FALSE, !.timer = 0]

\* The timer callback when sweep() throws: catch (err) { log }, then
\* scheduleNext().
afterSweepError(r, t) == scheduleNext(r, t)

\* The timer callback goes on after `await this.sweep()`: once every
\* evaluation of Promise.all is through, scheduleNext().  The evaluations of
\* a finished sweep stay readable until the slot starts its next sweep.
SweepStep(k, sw) ==
  IF Finished(sw)
  THEN /\ sweeps' = [sweeps EXCEPT ![k] = [sw EXCEPT !.pc = "idle"]]
       /\ IF sw.err = "none"
          THEN /\ FreeTimers(reaper) # {}
               /\ reaper' = scheduleNext(reaper, now)
          ELSE UNCHANGED reaper
  ELSE /\ sweeps' = [sweeps EXCEPT ![k] = sw]
       /\ UNCHANGED reaper

\* A setTimeout callback runs: if (!this.running) return; await this.sweep()
\* -> listRunningMachines() issues the list request.
TimerFire(id) ==
  /\ reaper.timeouts[id] # NoTimer
  /\ reaper.timeouts[id] <= now
  /\ reaper' = [reaper EXCEPT !.timeouts[id] = NoTimer]
  /\ IF reaper.running
     THEN \E k \in SweepIds :
            /\ sweeps[k].pc = "idle"
            /\ \A j \in SweepIds : sweeps[j].pc = "idle" => k <= j
            /\ sweeps' = [sweeps EXCEPT ![k] = [IdleSweep EXCEPT !.pc = "list"]]
     ELSE UNCHANGED sweeps
  /\ UNCHANGED <<now, redis, machines, worker, calls, client, agent, hist>>

\* The list request fails: sweep() throws, the callback logs it and calls
\* scheduleNext().
ListFails(k) ==
  /\ sweeps[k].pc = "list"
  /\ FreeTimers(reaper) # {}
  /\ sweeps' = [sweeps EXCEPT ![k] = [IdleSweep EXCEPT !.err = "list"]]
  /\ reaper' = afterSweepError(reaper, now)
  /\ UNCHANGED <<now, redis, machines, worker, calls, client, agent, hist>>

\* The list request returns: every listed machine is evaluated; each
\* evaluateMachine issues its two GETs.
ListReply(k) ==
  /\ sweeps[k].pc = "list"
  /\ LET live == listRunningMachines(machines)
     IN SweepStep(k, [pc |-> "eval", err |-> "none",
                      evals |-> [m \in MachineIds |->
                         IF m \in live /\ startsWithPrefix(machines[m].name)
                         THEN [NoEval EXCEPT
                                 !.pc = "getHb",
                                 !.obs.doneCalled =
                                    /\ worker[m].pc \in
                                         {"markDone", "closing", "closed"}
                                    /\ worker[m].lastRenew >= 0,
                                 !.obs.doneReturned =
                                    worker[m].pc \in {"closing", "closed"},
                                 !.obs.failedBefore = hist.stopFailed[m]]
                         ELSE NoEval]])
  /\ hist' = [hist EXCEPT
       !.empty = @ \/ listRunningMachines(machines) = {}]
  /\ UNCHANGED <<now, redis, machines, worker, calls, client, agent>>

\* Redis applies GET agent:heartbeat:<session>.
EvalGetHb(k, m) ==
  /\ sweeps[k].evals[m].pc = "getHb"
  /\ LET s == sessionId(machines[m].name)
         w == worker[m]
         quiet == w.pc = "crashed" /\ w.queue = <<>> /\ w.lastRenew >= 0
     IN sweeps' = [sweeps EXCEPT ![k].evals[m] =
          [@ EXCEPT !.pc = "getSt",
                    !.rawHeartbeat = redis.heartbeat[s].started_at,
                    !.obs.early = w.lastRenew = -1 /\ ~hist.regFailed[m],
                    !.obs.sawDel = redis.heartbeat[s] = NoLease
                                   /\ hist.deletedBy[s] = "worker",
                    !.obs.owed = hist.owed[m],
                    !.obs.lease =
                       IF ~quiet \/ hist.deletedBy[s] = "reaperEarly" THEN "na"
                       ELSE IF now >= w.lastRenew + heartbeatTtl THEN "expired"
                       ELSE IF hist.deletedBy[s] = "reaper" THEN "cleaned"
                       ELSE "valid"]]
  /\ UNCHANGED <<now, redis, machines, worker, reaper, calls, client, agent, hist>>

\* Redis applies GET agent:status:<session>; with both replies in,
\* evaluateMachine decides and, if it kills, issues the stop request.
EvalGetSt(k, m) ==
  /\ sweeps[k].evals[m].pc = "getSt"
  /\ LET s == sessionId(machines[m].name)
         e == sweeps[k].evals[m]
         rawStatus == redis.status[s].val
         reason == Decide(rawStatus, e.rawHeartbeat, now)
         w == worker[m]
     IN SweepStep(k, [sweeps[k] EXCEPT !.evals[m] =
          [e EXCEPT !.pc = IF reason = "none" THEN "done" ELSE "stop",
                    !.rawStatus = rawStatus,
                    !.at = now,
                    !.reason = reason,
                    !.obs.orphan = sweeps[k].err # "none",
                    !.obs.torn = e.obs.sawDel /\ rawStatus = "nil"
                                 /\ w.pc = "markDone" /\ w.queue = <<"setD">>]])
  /\ UNCHANGED <<now, redis, machines, worker, calls, client, agent, hist>>

\* A failing read that rejects every evaluation of the sweep still in
\* flight with it.
EvalGetFailsCancels(k, m) ==
  /\ sweeps[k].evals[m].pc \in {"getHb", "getSt"}
  /\ sweeps' = [sweeps EXCEPT ![k] =
       [pc |-> "idle", err |-> "read",
        evals |-> [n \in MachineIds |->
           IF sweeps[k].evals[n].pc \in {"none", "done"}
           THEN sweeps[k].evals[n]
           ELSE [sweeps[k].evals[n] EXCEPT !.pc = "failed"]]]]
  /\ IF sweeps[k].err = "none"
     THEN /\ FreeTimers(reaper) # {}
          /\ reaper' = afterSweepError(reaper, now)
     ELSE UNCHANGED reaper
  /\ UNCHANGED <<now, redis, machines, worker, calls, client, agent, hist>>

\* A GET of an evaluation fails (registry unreachable): Promise.all of the
\* two GETs rejects, evaluateMachine rejects without a decision, and with it
\* the Promise.all of sweep(), once: sweep() throws, the callback logs the
\* error and calls scheduleNext().  The other evaluations of the sweep are
\* not cancelled.
EvalGetFails(k, m) ==
  /\ sweeps[k].evals[m].pc \in {"getHb", "getSt"}
  /\ LET sw == [sweeps[k] EXCEPT !.evals[m].pc = "failed", !.err = "read"]
     IN /\ sweeps' = [sweeps EXCEPT ![k] =
             IF Finished(sw) THEN [sw EXCEPT !.pc = "idle"] ELSE sw]
        /\ IF sweeps[k].err = "none"
           THEN /\ FreeTimers(reaper) # {}
                /\ reaper' = afterSweepError(reaper, now)
           ELSE UNCHANGED reaper
  /\ UNCHANGED <<now, redis, machines, worker, calls, client, agent, hist>>

\* Fly answers POST /machines/<id>/stop.  A stop that succeeds takes the
\* machine to stopping; one that fails (non-OK or network error) changes
\* nothing.  Either way killMachine goes on to the cleanup.
StopReply(k, m, ok) ==
  /\ sweeps[k].evals[m].pc = "stop"
  /\ machines' = IF ok /\ machines[m].state \in {"created", "starting", "started"}
                 THEN [machines EXCEPT ![m].state = "stopping"]
                 ELSE machines
  /\ hist' = [hist EXCEPT
       !.stopFailed[m] = @ \/ (~ok /\ ~sweeps[k].evals[m].obs.early)]
  /\ SweepStep(k, [sweeps[k] EXCEPT !.evals[m] = afterStop(@, ok)])
  /\ UNCHANGED <<now, redis, worker, calls, client, agent>>

\* Redis applies DEL heartbeat, status, machine; evaluateMachine returns.
EvalDel(k, m) ==
  /\ sweeps[k].evals[m].pc = "del"
  /\ LET s == sessionId(machines[m].name)
     IN /\ redis' = DelAll(redis, s)
        /\ hist' = [hist EXCEPT
             !.deletedBy[s] =
                IF redis.heartbeat[s] = NoLease THEN @
                ELSE IF sweeps[k].evals[m].obs.early THEN "reaperEarly"
                ELSE "reaper",
             !.owed[m] = sweeps[k].evals[m].stopped = "failed"]
  /\ SweepStep(k, [sweeps[k] EXCEPT !.evals[m].pc = "done",
                                    !.evals[m].cleaned = TRUE])
  /\ UNCHANGED <<now, machines, worker, calls, client, agent>>

\* The DEL of killMachine fails (registry unreachable): nothing is deleted,
\* evaluateMachine rejects after its stop request, and sweep() throws as for
\* a failed read.
EvalDelFails(k, m) ==
  /\ sweeps[k].evals[m].pc = "del"
  /\ LET sw == [sweeps[k] EXCEPT !.evals[m].pc = "failed",
                                 !.err = IF @ = "none" THEN "del" ELSE @]
     IN /\ sweeps' = [sweeps EXCEPT ![k] =
             IF Finished(sw) THEN [sw EXCEPT !.pc = "idle"] ELSE sw]
        /\ IF sweeps[k].err = "none"
           THEN /\ FreeTimers(reaper) # {}
                /\ reaper' = afterSweepError(reaper, now)
           ELSE UNCHANGED reaper
  /\ UNCHANGED <<now, redis, machines, worker, calls, client, agent, hist>>

\* ------------------------------------------------ getOrCreateSession
\* Fly: POST /machines with name agent-session-<s>.  The name is derived from
\* the session id, and creators of one name converge on one machine: while a
\* machine of that name exists, create returns it.  0: no id is left.
ExistingMachine(ms, s) ==
  {m \in MachineIds : ms[m].name = s /\ ms[m].state \notin {"none", "destroyed"}}

\* Create that ignores the name: always a new machine.
createMachineUnnamed(ms, s) ==
  IF \E m \in MachineIds : ms[m].state = "none"
  THEN CHOOSE m \in MachineIds :
         /\ ms[m].state = "none"
         /\ \A j \in MachineIds : ms[j].state = "none" => m <= j
  ELSE 0

createMachine(ms, s) ==
  IF ExistingMachine(ms, s) # {}
  THEN CHOOSE m \in ExistingMachine(ms, s) : TRUE
  ELSE IF \E m \in MachineIds : ms[m].state = "none"
  THEN CHOOSE m \in MachineIds :
         /\ ms[m].state = "none"
         /\ \A j \in MachineIds : ms[j].state = "none" => m <= j
  ELSE 0

\* A caller makes one call: "new" before it, "returned" or "failed" after.
NewCall == [pc |-> "new", sess |-> "s1", machine_id |-> 0]

\* A call between its entry and its return.
InFlight(cl) == cl.pc \in {"get", "create", "set"}

\* A caller enters getOrCreateSession(s): GET agent:machine:<s> is issued.
Call(c, s) ==
  /\ calls[c].pc = "new"
  /\ \A b \in Callers : b < c => calls[b].pc # "new"
  /\ calls' = [calls EXCEPT ![c] = [pc |-> "get", sess |-> s, machine_id |-> 0]]
  /\ hist' = [hist EXCEPT !.concurrent[s] =
       @ \/ \E b \in Callers : InFlight(calls[b]) /\ calls[b].sess = s]
  /\ UNCHANGED <<now, redis, machines, worker, reaper, sweeps, client, agent>>

\* Redis applies the GET: a mapping is returned as it is; without one the
\* create request is issued.
CallGet(c) ==
  /\ calls[c].pc = "get"
  /\ LET mp == redis.machine[calls[c].sess]
     IN calls' = [calls EXCEPT ![c] =
          IF mp # NoMapping
          THEN [@ EXCEPT !.pc = "returned", !.machine_id = mp.machine_id]
          ELSE [@ EXCEPT !.pc = "create"]]
  /\ UNCHANGED <<now, redis, machines, worker, reaper, sweeps, client, agent, hist>>

\* Fly applies the create; the SETEX of the mapping is issued.
CallCreate(c) ==
  /\ calls[c].pc = "create"
  /\ LET s  == calls[c].sess
         id == createMachine(machines, s)
     IN /\ id # 0
        /\ machines' = IF machines[id].state = "none"
                       THEN [machines EXCEPT ![id] = [name |-> s, state |-> "created"]]
                       ELSE machines
        /\ calls' = [calls EXCEPT ![c].pc = "set", ![c].machine_id = id]
  /\ UNCHANGED <<now, redis, worker, reaper, sweeps, client, agent, hist>>

\* The create fails: the error surfaces to the caller.
CallCreateFails(c) ==
  /\ calls[c].pc = "create"
  /\ calls' = [calls EXCEPT ![c].pc = "failed"]
  /\ UNCHANGED <<now, redis, machines, worker, reaper, sweeps, client, agent, hist>>

\* Redis applies SETEX agent:machine:<s> with TTL maxTurnTimeout + grace;
\* the new mapping is returned.
CallSet(c) ==
  /\ calls[c].pc = "set"
  /\ redis' = [redis EXCEPT !.machine[calls[c].sess] =
       [machine_id |-> calls[c].machine_id,
        exp |-> now + maxTurnTimeout + mappingGrace]]
  /\ calls' = [calls EXCEPT ![c].pc = "returned"]
  /\ UNCHANGED <<now, machines, worker, reaper, sweeps, client, agent, hist>>

\* ------------------------------------------------------- SwarmClient
\* The options of a client, in clock units: pollTimeoutMs, pollIntervalMs,
\* maxPollIntervalMs.
PollTimeouts == {0, 1, 2, 3}
PollIntervals == {1, 2, 3}
MaxPollIntervals == {1, 2, 4}

\* (content: the content chat() was called with; code: the status of the
\* reply to its POST; sent: the trace id of the message that reply
\* acknowledged; got and text: the trace id of the message whose outcome the
\* last poll observed, 0 for none, and the content it carried.)
\* A client and its one pollUntilDone call: pc is the position of the call
\* ("new" before it; "sleep", "get" inside the loop; "returned", "failed"),
\* deadline and interval its locals, wake the due time of the sleep.
\* History: waits holds the last two sleeps, seen the status of the last
\* reply, late whether a status request was issued after the deadline.
NoClient ==
  [pc |-> "new", opts |-> [timeout |-> 0, interval |-> 1, max |-> 1],
   deadline |-> -1, interval |-> 0, wake |-> NoTimer, result |-> "none",
   waits |-> <<>>, seen |-> "none", late |-> FALSE,
   content |-> "", code |-> 0, sent |-> 0, got |-> 0, text |-> ""]

Min(a, b) == IF a <= b THEN a ELSE b

LastTwo(q) == IF Len(q) <= 2 THEN q ELSE Tail(q)

\* await sleep(interval)
sleep(c, t) ==
  [c EXCEPT !.pc = "sleep", !.wake = t + c.interval,
            !.waits = LastTwo(Append(@, c.interval))]

\* A loop that goes round whatever the clock says.
loopNoDeadline(c, t) == sleep(c, t)

\* while (Date.now() < deadline) { await sleep(interval) ... }
\* throw new SwarmError("Timed out waiting ...")
loop(c, t) ==
  IF t < c.deadline THEN sleep(c, t)
  ELSE [c EXCEPT !.pc = "failed", !.result = "timeout"]

\* pollUntilDone(sessionId) up to its first await
pollUntilDone(c, t) ==
  loop([c EXCEPT !.deadline = t + c.opts.timeout,
                 !.interval = c.opts.interval], t)

\* chat() calls pollUntilDone.
PollCall ==
  /\ client.pc = "new"
  /\ client' = pollUntilDone(client, now)
  /\ UNCHANGED <<now, redis, machines, worker, reaper, sweeps, calls, agent,
                 hist>>

\* The sleep is over: the interval doubles up to the cap and the status
\* request is issued.
SleepDone ==
  /\ client.pc = "sleep"
  /\ client.wake <= now
  /\ client' = [client EXCEPT
       !.pc = "get",
       !.wake = NoTimer,
       !.interval = Min(@ * 2, client.opts.max),
       !.late = @ \/ now > client.deadline]
  /\ UNCHANGED <<now, redis, machines, worker, reaper, sweeps, calls, agent,
                 hist>>

\* GET /sessions/<id>/status is answered: done returns the content, error
\* throws the agent's error, processing and idle go round the loop.
afterGet(c, st, t) ==
  IF st = "done"
  THEN [c EXCEPT !.pc = "returned", !.result = "done", !.seen = st]
  ELSE IF st = "error"
  THEN [c EXCEPT !.pc = "failed", !.result = "agent_error", !.seen = st]
  ELSE loop([c EXCEPT !.seen = st], t)

StatusReply(st) ==
  /\ client.pc = "get"
  /\ client' = afterGet(client, st, now)
  /\ UNCHANGED <<now, redis, machines, worker, reaper, sweeps, calls, agent,
                 hist>>

\* The status request fails (non-OK reply, invalid JSON, network error):
\* this.get throws and pollUntilDone with it.
StatusFails ==
  /\ client.pc = "get"
  /\ client' = [client EXCEPT !.pc = "failed", !.result = "http_error"]
  /\ UNCHANGED <<now, redis, machines, worker, reaper, sweeps, calls, agent,
                 hist>>

\* -------------------------------------------------------- agent server
\* The agent HTTP server of one sandbox: history, processing, lastError and
\* currentTraceId are its module variables.  A request is named by its
\* trace id; the model gives the request of an accepted message the position
\* its user turn takes in history (0: null).  query is the position of
\* processMessage ("none": not running, "running": awaiting the SDK query);
\* response is the reply to the last POST /message, reply the reply to the
\* last GET /status, failed the trace id of the message whose error is in
\* lastError.
MaxTurns == 4
Null == "<null>"
Contents == {"", "a"}
Bodies == {"malformed"} \cup Contents
Results == {"", "r"}
ErrorMessages == {"", "boom"}

NoResponse == [code |-> 0, message_index |-> -1]
NoReply == [status |-> "none", content |-> Null, error |-> Null, turns |-> -1,
            traceId |-> 0]

NoAgent ==
  [history |-> <<>>, processing |-> FALSE, lastError |-> Null,
   currentTraceId |-> 0,
   query |-> "none", response |-> NoResponse, reply |-> NoReply, failed |-> 0]

\* JavaScript's test of a string or null in a condition: null and the empty
\* string are false.
truthy(x) == x # Null /\ x # ""

\* POST /message with the body parsed: 400 for no content, 409 while
\* processing; otherwise the user turn is pushed, processing is set,
\* lastError cleared, processMessage started (it runs up to its await of the
\* SDK query) and the reply names the turn pushed.
postMessageNoBusyCheck(a, content) ==
  IF ~truthy(content)
  THEN [a EXCEPT !.response = [code |-> 400, message_index |-> -1]]
  ELSE LET traceId == Len(a.history) + 1
           h == Append(a.history,
                  [role |-> "user", content |-> content, traceId |-> traceId])
       IN [a EXCEPT !.history = h,
                    !.processing = TRUE,
                    !.lastError = Null,
                    !.currentTraceId = traceId,
                    !.query = "running",
                    !.response = [code |-> 200, message_index |-> Len(h) - 1]]

postMessageKeepsLastError(a, content) ==
  IF ~truthy(content)
  THEN [a EXCEPT !.response = [code |-> 400, message_index |-> -1]]
  ELSE IF a.processing
  THEN [a EXCEPT !.response = [code |-> 409, message_index |-> -1]]
  ELSE LET traceId == Len(a.history) + 1
           h == Append(a.history,
                  [role |-> "user", content |-> content, traceId |-> traceId])
       IN [a EXCEPT !.history = h,
                    !.processing = TRUE,
                    !.currentTraceId = traceId,
                    !.query = "running",
                    !.response = [code |-> 200, message_index |-> Len(h) - 1]]

postMessage(a, content) ==
  IF ~truthy(content)
  THEN [a EXCEPT !.response = [code |-> 400, message_index |-> -1]]
  ELSE IF a.processing
  THEN [a EXCEPT !.response = [code |-> 409, message_index |-> -1]]
  ELSE LET traceId == Len(a.history) + 1
           h == Append(a.history,
                  [role |-> "user", content |-> content, traceId |-> traceId])
       IN [a EXCEPT !.history = h,
                    !.processing = TRUE,
                    !.lastError = Null,
                    !.currentTraceId = traceId,
                    !.query = "running",
                    !.response = [code |-> 200, message_index |-> Len(h) - 1]]

\* processMessage: the SDK query ended with a result: the assistant turn is
\* pushed and processing cleared.
processMessageKeepsProcessing(a, result) ==
  [a EXCEPT !.history = Append(@, [role |-> "assistant", content |-> result,
                                   traceId |-> a.currentTraceId]),
            !.currentTraceId = 0,
            !.query = "none"]

processMessage(a, result) ==
  [a EXCEPT !.history = Append(@, [role |-> "assistant", content |-> result,
                                   traceId |-> a.currentTraceId]),
            !.processing = FALSE,
            !.currentTraceId = 0,
            !.query = "none"]

\* processMessage: the SDK query threw: the catch block records the message.
processMessageCatch(a, msg) ==
  [a EXCEPT !.lastError = msg,
            !.processing = FALSE,
            !.failed = a.currentTraceId,
            !.currentTraceId = 0,
            !.query = "none"]

\* GET /status
status(a) ==
  LET n == Len(a.history)
  IN IF a.processing
     THEN [NoReply EXCEPT !.status = "processing", !.turns = n,
                          !.traceId = a.currentTraceId]
     ELSE IF truthy(a.lastError)
     THEN [NoReply EXCEPT !.status = "error", !.error = a.lastError,
                          !.turns = n, !.traceId = a.currentTraceId]
     ELSE IF n > 0 /\ a.history[n].role = "assistant"
     THEN [NoReply EXCEPT !.status = "done", !.content = a.history[n].content,
                          !.turns = n, !.traceId = a.history[n].traceId]
     ELSE [NoReply EXCEPT !.status = "idle", !.turns = n]

\* GET /health
health(a) == [status |-> "ok", turns |-> Len(a.history),
              processing |-> a.processing]

\* Orchestrator.getSessionStatus over a reachable agent
getSessionStatus(a) ==
  [status |-> IF health(a).status = "ok" THEN "running" ELSE "error",
   message_count |-> health(a).turns \div 2]

\* A POST /message arrives.  A body that does not parse makes c.req.json()
\* throw: the framework answers 500 and nothing else happens.  A message is
\* taken only while its two turns fit the bound on history.
PostMessage(body) ==
  /\ body \in Bodies
  /\ agent' =
       IF body = "malformed"
       THEN [agent EXCEPT !.response = [code |-> 500, message_index |-> -1]]
       ELSE postMessage(agent, body)
  /\ Len(agent'.history) + 1 <= MaxTurns \/ agent'.history = agent.history
  /\ UNCHANGED <<now, redis, machines, worker, reaper, sweeps, calls, client,
                 hist>>

\* The SDK query of the message in process ends with a result.
QueryReturns(result) ==
  /\ agent.query = "running"
  /\ agent' = processMessage(agent, result)
  /\ UNCHANGED <<now, redis, machines, worker, reaper, sweeps, calls, client,
                 hist>>

\* The SDK query of the message in process throws.
QueryThrows(msg) ==
  /\ agent.query = "running"
  /\ agent' = processMessageCatch(agent, msg)
  /\ UNCHANGED <<now, redis, machines, worker, reaper, sweeps, calls, client,
                 hist>>

\* A GET /status arrives and is answered.
GetStatus ==
  /\ agent' = [agent EXCEPT !.reply = status(agent)]
  /\ UNCHANGED <<now, redis, machines, worker, reaper, sweeps, calls, client,
                 hist>>
\* ---------------------------------------------------------------- chat
\* SwarmClient.chat(sessionId, content): POST /sessions/<id>/messages, then
\* pollUntilDone.  The worker and Orchestrator.sendMessage pass the request
\* on to the agent's POST /message and its reply back (a reply that is not
\* OK becomes a 500); Orchestrator.getStatus does the same for GET /status.
\* The client makes one call at a time.
ChatCall(content) ==
  /\ client.pc \in {"new", "returned", "failed"}
  /\ client' = [NoClient EXCEPT !.opts = client.opts, !.pc = "post",
                                !.content = content]
  /\ UNCHANGED <<now, redis, machines, worker, reaper, sweeps, calls, agent,
                 hist>>

\* The POST reaches the worker: a body without content is answered 400
\* there, any other is passed to the agent, whose handler runs.
PostArrives ==
  /\ client.pc = "post"
  /\ agent' = IF truthy(client.content) THEN postMessage(agent, client.content)
              ELSE agent
  /\ Len(agent'.history) + 1 <= MaxTurns \/ agent'.history = agent.history
  /\ client' = [client EXCEPT
       !.pc = "posted",
       !.code = IF truthy(client.content) THEN agent'.response.code ELSE 400,
       !.sent = IF truthy(client.content) /\ agent'.response.code = 200
                THEN agent'.response.message_index + 1 ELSE 0]
  /\ UNCHANGED <<now, redis, machines, worker, reaper, sweeps, calls, hist>>

\* The reply to the POST reaches the client: acknowledged, chat() goes on to
\* pollUntilDone; not OK, this.post throws and chat() with it.
PostAck ==
  /\ client.pc = "posted"
  /\ client' = IF client.code = 200 THEN pollUntilDone(client, now)
               ELSE [client EXCEPT !.pc = "failed", !.result = "http_error"]
  /\ UNCHANGED <<now, redis, machines, worker, reaper, sweeps, calls, agent,
                 hist>>

\* The POST or its reply is lost on the way: fetch rejects and chat() throws.
PostFails ==
  /\ client.pc \in {"post", "posted"}
  /\ client' = [client EXCEPT !.pc = "failed", !.result = "http_error"]
  /\ UNCHANGED <<now, redis, machines, worker, reaper, sweeps, calls, agent,
                 hist>>

\* The status request of a poll is answered by the agent's GET /status.
ChatStatus ==
  /\ client.pc = "get"
  /\ LET r == status(agent)
     IN client' = afterGet(
          [client EXCEPT
             !.got = IF r.status = "done" THEN r.traceId
                     ELSE IF r.status = "error" THEN agent.failed ELSE 0,
             !.text = IF r.status = "done" THEN r.content ELSE ""],
          r.status, now)
  /\ UNCHANGED <<now, redis, machines, worker, reaper, sweeps, calls, agent,
                 hist>>

\* ---------------------------------------------------------------- time
\* The clock advances when no timer is due and no Redis command is in
\* flight (a command is applied, or fails, within the clock unit in which it
\* was issued; a request to the Fly API may take any time).  Keys whose TTL
\* has run out go.
RedisQuiet ==
  /\ \A m \in MachineIds : worker[m].queue = <<>>
  /\ \A k \in SweepIds, m \in MachineIds :
        sweeps[k].evals[m].pc \notin {"getHb", "getSt", "del"}
  /\ \A c \in Callers : calls[c].pc \notin {"get", "set"}

Tick ==
  /\ now < MaxTime
  /\ RedisQuiet
  /\ \A i \in TimerIds : reaper.timeouts[i] = NoTimer \/ reaper.timeouts[i] > now
  /\ \A m \in MachineIds : worker[m].timer = NoTimer \/ worker[m].timer > now
  /\ client.wake = NoTimer \/ client.wake > now
  /\ now' = now + 1
  /\ redis' = Expire(redis, now + 1)
  /\ UNCHANGED <<machines, worker, reaper, sweeps, calls, client, agent, hist>>

\* ------------------------------------------------------- specification
NoHist ==
  [regFailed  |-> [m \in MachineIds |-> FALSE],
   stopFailed |-> [m \in MachineIds |-> FALSE],
   owed       |-> [m \in MachineIds |-> FALSE],
   deletedBy  |-> [s \in Sessions |-> "none"],
   concurrent |-> [s \in Sessions |-> FALSE],
   statusWrites |-> [m \in MachineIds |-> <<>>],
   again      |-> [m \in MachineIds |-> FALSE],
   empty      |-> FALSE,
   stopped    |-> FALSE,
   everStopped |-> FALSE,
   startAgain |-> FALSE,
   reclose    |-> [m \in MachineIds |-> "no"],
   cfg        |-> [interval |-> heartbeatInterval, ttl |-> heartbeatTtl],
   writes     |-> [m \in MachineIds |-> <<>>],
   gap        |-> [m \in MachineIds |-> FALSE],
   bridged    |-> [m \in MachineIds |-> FALSE],
   first      |-> [m \in MachineIds |-> [lease |-> NoLease, status |-> NoStatus]]]

NoRedis ==
  [heartbeat |-> [s \in Sessions |-> NoLease],
   status    |-> [s \in Sessions |-> NoStatus],
   machine   |-> [s \in Sessions |-> NoMapping]]

WorkerStep(m) ==
  \/ WorkerMain(m) \/ HbTick(m) \/ TaskReturns(m) \/ TaskThrows(m)
  \/ Crash(m) \/ RedisApply(m, TRUE) \/ RedisApply(m, FALSE)

PlatformStep(m) ==
  \/ PlatformBoot(m) \/ ProcessExited(m) \/ PlatformStopped(m)
  \/ PlatformDestroyed(m)

SweepStepOf(k) ==
  \/ ListFails(k) \/ ListReply(k)
  \/ \E m \in MachineIds :
       \/ EvalGetHb(k, m) \/ EvalGetSt(k, m)
       \/ StopReply(k, m, TRUE) \/ StopReply(k, m, FALSE) \/ EvalDel(k, m)

\* Spec: the life of one session.  The orchestrator is up, its reaper
\* constructed and started; getOrCreateSession has just returned for session
\* s1: machine 1 is created and the mapping written.
Init ==
  /\ now = 0
  /\ redis = [NoRedis EXCEPT !.machine["s1"] =
                [machine_id |-> 1, exp |-> maxTurnTimeout + mappingGrace]]
  /\ machines = [m \in MachineIds |->
                   [name |-> "s1", state |-> IF m = 1 THEN "created" ELSE "none"]]
  /\ worker = [m \in MachineIds |-> NoWorker]
  /\ reaper = reaperStart(NewReaper, 0)
  /\ sweeps = [k \in SweepIds |-> IdleSweep]
  /\ calls = [c \in Callers |-> NewCall]
  /\ client = NoClient
  /\ agent = NoAgent
  /\ hist = NoHist

Next ==
  \/ Tick
  \/ \E m \in MachineIds : WorkerStep(m) \/ PlatformStep(m)
  \/ \E i \in TimerIds : TimerFire(i)
  \/ \E k \in SweepIds : SweepStepOf(k)

Spec == Init /\ [][Next]_vars

\* ---------------------------------------------------------- properties
\* SpecReaper: one MachineReaper whose start() and stop() are called at any
\* time, any number of times (hist.stopped: the last of these calls was a
\* stop(); hist.everStopped: one of them was; hist.startAgain: start() was
\* called on a running reaper).  Machine 1 is starting and no worker comes up
\* in it, so that every sweep has a machine to evaluate and to stop; machine
\* 2 is a started machine of the app that is not a session's.
StartCall ==
  /\ reaper.running \/ FreeTimers(reaper) # {}
  /\ reaper' = reaperStart(reaper, now)
  /\ hist' = [hist EXCEPT !.stopped = FALSE,
                          !.startAgain = @ \/ reaper.running]
  /\ UNCHANGED <<now, redis, machines, worker, sweeps, calls, client, agent>>

StopCall ==
  /\ reaper' = reaperStop(reaper)
  /\ hist' = [hist EXCEPT !.stopped = TRUE, !.everStopped = TRUE]
  /\ UNCHANGED <<now, redis, machines, worker, sweeps, calls, client, agent>>

InitReaper ==
  /\ now = 0
  /\ redis = [NoRedis EXCEPT !.machine["s1"] =
                [machine_id |-> 1, exp |-> maxTurnTimeout + mappingGrace]]
  /\ machines = [m \in MachineIds |->
                   IF m = 1 THEN [name |-> "s1", state |-> "starting"]
                   ELSE [name |-> ForeignName, state |-> "started"]]
  /\ worker = [m \in MachineIds |-> NoWorker]
  /\ reaper = NewReaper
  /\ sweeps = [k \in SweepIds |-> IdleSweep]
  /\ calls = [c \in Callers |-> NewCall]
  /\ client = NoClient
  /\ agent = NoAgent
  /\ hist = NoHist

NextReaper ==
  \/ Tick
  \/ StartCall
  \/ StopCall
  \/ \E i \in TimerIds : TimerFire(i)
  \/ \E k \in SweepIds : SweepStepOf(k)

SpecReaper == InitReaper /\ [][NextReaper]_vars

\* SpecSessions: sessions are requested.  The orchestrator is up and its
\* reaper started; no machine exists yet; the callers call
\* getOrCreateSession while workers run and sweeps reclaim.  The workers
\* of these runs reach the registry and their tasks return.
WorkerRuns(m) ==
  \/ WorkerMain(m) \/ HbTick(m) \/ TaskReturns(m) \/ RedisApply(m, TRUE)

CallStep(c) ==
  \/ \E s \in Requested : Call(c, s)
  \/ CallGet(c) \/ CallCreate(c) \/ CallCreateFails(c) \/ CallSet(c)

InitSessions ==
  /\ now = 0
  /\ redis = NoRedis
  /\ machines = [m \in MachineIds |-> [name |-> "s1", state |-> "none"]]
  /\ worker = [m \in MachineIds |-> NoWorker]
  /\ reaper = reaperStart(NewReaper, 0)
  /\ sweeps = [k \in SweepIds |-> IdleSweep]
  /\ calls = [c \in Callers |-> NewCall]
  /\ client = NoClient
  /\ agent = NoAgent
  /\ hist = NoHist

NextSessions ==
  \/ Tick
  \/ \E c \in Callers : CallStep(c)
  \/ \E m \in MachineIds : WorkerRuns(m) \/ PlatformStep(m)
  \/ \E i \in TimerIds : TimerFire(i)
  \/ \E k \in SweepIds : SweepStepOf(k)

SpecSessions == InitSessions /\ [][NextSessions]_vars

\* SpecReporter: a reporter that is driven call by call instead of by main:
\* start(), markDone(), markDone() once more after it returned, close(), and
\* close() again after it returned, the registry within reach.  hist.first keeps the lease and the
\* status as the first call left them.
\* The continuation of the caller when the reply to `cmd` arrives: markDone()
\* returns after both replies ("marked"), close() after QUIT is answered.
settleCall(w, cmd) ==
  IF w.pc = "markDone" /\ cmd \in {"delD", "setD"}
  THEN IF Awaiting(w.queue, {"delD", "setD"}) THEN w
       ELSE [w EXCEPT !.pc = "marked"]
  ELSE IF w.pc = "closing" /\ cmd = "quit" THEN [w EXCEPT !.pc = "closed"]
  ELSE w

\* Redis applies the oldest command in flight of the reporter.
ReporterApply(m) ==
  /\ worker[m].queue # <<>>
  /\ LET w   == worker[m]
         cmd == Head(w.queue)
         s   == machines[m].name
     IN /\ redis' = applyCmd(redis, s, w, cmd, now)
        /\ worker' = [worker EXCEPT ![m] =
             settleCall([w EXCEPT
                !.queue = Tail(@),
                !.lastRenew = IF cmd = "setex" THEN now ELSE @,
                !.deleted = @ \/ cmd \in {"delD", "delE"}], cmd)]
        /\ hist' = [hist EXCEPT
             !.statusWrites[m] = IF cmd = "setD" THEN Append(@, cmd) ELSE @]
  /\ UNCHANGED <<now, machines, reaper, sweeps, calls, client, agent>>

\* close() is called on a reporter whose markDone() has returned.
Close(m) ==
  /\ worker[m].pc = "marked"
  /\ Len(worker[m].queue) < MaxQueue
  /\ worker' = [worker EXCEPT ![m] = close(worker[m])]
  /\ UNCHANGED <<now, redis, machines, reaper, sweeps, calls, client, agent, hist>>

MarkDoneAgain(m) ==
  /\ worker[m].pc = "marked"
  /\ ~hist.again[m]
  /\ Len(worker[m].queue) + 2 <= MaxQueue
  /\ worker' = [worker EXCEPT ![m] = markDone(worker[m])]
  /\ hist' = [hist EXCEPT
       !.again[m] = TRUE,
       !.first[m] = [lease  |-> redis.heartbeat[machines[m].name],
                     status |-> redis.status[machines[m].name]]]
  /\ UNCHANGED <<now, redis, machines, reaper, sweeps, calls, client, agent>>

\* The connection of a reporter (ioredis status): "end" once the QUIT of
\* close() has been answered and the socket is closed.
connection(w) == IF w.pc = "closed" THEN "end" ELSE "ready"

\* redis.quit(): on a connection that has ended the command is not sent and
\* its promise rejects ("Connection is closed."); otherwise QUIT is answered.
quit(w) == IF connection(w) = "end" THEN "rejected" ELSE "OK"

\* close() is called on a reporter that was closed before: stop(), then
\* await this.redis.quit().  hist.reclose keeps how the call ended: "ok"
\* (it returned), "raised" (it rejected).
CloseAgain(m) ==
  /\ worker[m].pc = "closed"
  /\ worker[m].queue = <<>>
  /\ worker' = [worker EXCEPT ![m] = stop(worker[m])]
  /\ hist' = [hist EXCEPT
       !.reclose[m] = IF quit(worker[m]) = "OK" THEN "ok" ELSE "raised"]
  /\ UNCHANGED <<now, redis, machines, reaper, sweeps, calls, client, agent>>

InitReporter ==
  /\ now = 0
  /\ redis = NoRedis
  /\ machines = [m \in MachineIds |->
                   [name |-> "s1", state |-> IF m = 1 THEN "starting" ELSE "none"]]
  /\ worker = [m \in MachineIds |-> NoWorker]
  /\ reaper = NewReaper
  /\ sweeps = [k \in SweepIds |-> IdleSweep]
  /\ calls = [c \in Callers |-> NewCall]
  /\ client = NoClient
  /\ agent = NoAgent
  /\ hist = NoHist

NextReporter ==
  \/ Tick
  \/ \E m \in MachineIds :
       \/ WorkerMain(m) \/ HbTick(m) \/ TaskReturns(m) \/ MarkDoneAgain(m)
       \/ Close(m) \/ CloseAgain(m) \/ ReporterApply(m)

SpecReporter == InitReporter /\ [][NextReporter]_vars

\* SpecRenewal: a reporter that renews under any configuration of
\* heartbeatInterval and heartbeatTtl with heartbeatTtl > heartbeatInterval
\* (hist.cfg), its writes succeeding or failing.  hist.writes keeps the
\* outcomes of its last two lease writes; a write that succeeds after one
\* failure after one success sets hist.gap if it finds the lease gone,
\* hist.bridged if it finds it in place.
Intervals == {1, 2}
Ttls == {2, 3, 4}

\* A write that leaves the expiry of a lease in place as it is.
SetexKeepsExpiry(r, s, startedAt, t, ttl) ==
  [r EXCEPT !.heartbeat[s] =
     [started_at |-> startedAt,
      exp |-> IF r.heartbeat[s] = NoLease THEN t + ttl ELSE r.heartbeat[s].exp]]

\* redis.setex(heartbeatKey, ttl, payload), ttl being config.heartbeatTtl
SetexWith(r, s, startedAt, t, ttl) ==
  [r EXCEPT !.heartbeat[s] = [started_at |-> startedAt, exp |-> t + ttl]]

StartCfg(m) ==
  /\ machines[m].state = "starting"
  /\ machines' = [machines EXCEPT ![m].state = "started"]
  /\ worker' = [worker EXCEPT
       ![m] = [start(now) EXCEPT !.timer = now + hist.cfg.interval]]
  /\ UNCHANGED <<now, redis, reaper, sweeps, calls, client, agent, hist>>

HbTickCfg(m) ==
  /\ Alive(worker[m])
  /\ worker[m].timer # NoTimer
  /\ worker[m].timer <= now
  /\ Len(worker[m].queue) < MaxQueue
  /\ worker' = [worker EXCEPT
       ![m] = [report(worker[m]) EXCEPT !.timer = @ + hist.cfg.interval]]
  /\ UNCHANGED <<now, redis, machines, reaper, sweeps, calls, client, agent, hist>>

SetexApply(m, ok) ==
  /\ worker[m].queue # <<>>
  /\ Head(worker[m].queue) = "setex"
  /\ LET w == worker[m]
         s == machines[m].name
         single == ok /\ hist.writes[m] = <<"ok", "failed">>
     IN /\ redis' = IF ok THEN SetexWith(redis, s, w.startedAt, now, hist.cfg.ttl)
                    ELSE redis
        /\ worker' = [worker EXCEPT
             ![m].queue = Tail(@),
             ![m].lastRenew = IF ok THEN now ELSE @]
        /\ hist' = [hist EXCEPT
             !.writes[m] = LastTwo(Append(@, IF ok THEN "ok" ELSE "failed")),
             !.gap[m] = @ \/ (single /\ redis.heartbeat[s] = NoLease),
             !.bridged[m] = @ \/ (single /\ redis.heartbeat[s] # NoLease)]
  /\ UNCHANGED <<now, machines, reaper, sweeps, calls, client, agent>>

InitRenewal ==
  /\ now = 0
  /\ redis = NoRedis
  /\ machines = [m \in MachineIds |->
                   [name |-> "s1", state |-> IF m = 1 THEN "starting" ELSE "none"]]
  /\ worker = [m \in MachineIds |-> NoWorker]
  /\ reaper = NewReaper
  /\ sweeps = [k \in SweepIds |-> IdleSweep]
  /\ calls = [c \in Callers |-> NewCall]
  /\ client = NoClient
  /\ agent = NoAgent
  /\ \E i \in Intervals, d \in Ttls :
       /\ d > i
       /\ hist = [NoHist EXCEPT !.cfg = [interval |-> i, ttl |-> d]]

NextRenewal ==
  \/ Tick
  \/ \E m \in MachineIds :
       \/ StartCfg(m) \/ HbTickCfg(m)
       \/ SetexApply(m, TRUE) \/ SetexApply(m, FALSE)

SpecRenewal == InitRenewal /\ [][NextRenewal]_vars

\* SpecTwo: two sessions side by side.  getOrCreateSession has returned for
\* s1 and for s2: machine 1 is s1's, machine 2 is s2's, both mappings are
\* written.  The process of machine 1 never comes up; the worker of machine
\* 2 runs; the sweeps evaluate both machines in parallel.
InitTwo ==
  /\ now = 0
  /\ redis = [NoRedis EXCEPT !.machine =
                [s \in Sessions |->
                   [machine_id |-> IF s = "s1" THEN 1 ELSE 2,
                    exp |-> maxTurnTimeout + mappingGrace]]]
  /\ machines = [m \in MachineIds |->
                   [name |-> IF m = 1 THEN "s1" ELSE "s2", state |-> "created"]]
  /\ worker = [m \in MachineIds |-> NoWorker]
  /\ reaper = reaperStart(NewReaper, 0)
  /\ sweeps = [k \in SweepIds |-> IdleSweep]
  /\ calls = [c \in Callers |-> NewCall]
  /\ client = NoClient
  /\ agent = NoAgent
  /\ hist = NoHist

NextTwo ==
  \/ Tick
  \/ WorkerRuns(2)
  \/ \E m \in MachineIds : PlatformStep(m)
  \/ \E i \in TimerIds : TimerFire(i)
  \/ \E k \in SweepIds : SweepStepOf(k)

SpecTwo == InitTwo /\ [][NextTwo]_vars

\* SpecFaults: the two machines of SpecTwo, their processes not coming up,
\* and a registry that may fail the reads and the deletes of the sweeps
\* (the list call may fail in every specification).
NextFaults ==
  \/ Tick
  \/ \E m \in MachineIds :
       PlatformBoot(m) \/ PlatformStopped(m) \/ PlatformDestroyed(m)
  \/ \E i \in TimerIds : TimerFire(i)
  \/ \E k \in SweepIds : SweepStepOf(k)
  \/ \E k \in SweepIds, m \in MachineIds : EvalGetFails(k, m)
  \/ \E k \in SweepIds, m \in MachineIds : EvalDelFails(k, m)

SpecFaults == InitTwo /\ [][NextFaults]_vars
\* SpecLive: the life of one session without end.  Once the clock has
\* reached MaxTime it stays there and every time in the state moves back by
\* one instead (a time at 0 stays: a start that long ago is over any budget
\* all the same).  The status record, whose TTL is far above MaxTime, is not
\* aged by this.  The registry is within the workers' reach.
Back(x) == IF x <= 0 THEN x ELSE x - 1

BackRedis(r) ==
  [r EXCEPT
     !.heartbeat = [s \in Sessions |->
        IF r.heartbeat[s] = NoLease THEN NoLease
        ELSE [started_at |-> Back(r.heartbeat[s].started_at),
              exp |-> Back(r.heartbeat[s].exp)]],
     !.machine = [s \in Sessions |->
        IF r.machine[s] = NoMapping THEN NoMapping
        ELSE [r.machine[s] EXCEPT !.exp = Back(@)]]]

BackWorker(w) ==
  [w EXCEPT !.timer = Back(@), !.startedAt = Back(@), !.lastRenew = Back(@)]

BackSweep(sw) ==
  [sw EXCEPT !.evals = [m \in MachineIds |->
     [sw.evals[m] EXCEPT !.rawHeartbeat = Back(@), !.at = Back(@)]]]

TickLive ==
  /\ RedisQuiet
  /\ \A i \in TimerIds : reaper.timeouts[i] = NoTimer \/ reaper.timeouts[i] > now
  /\ \A m \in MachineIds : worker[m].timer = NoTimer \/ worker[m].timer > now
  /\ client.wake = NoTimer \/ client.wake > now
  /\ IF now < MaxTime
     THEN /\ now' = now + 1
          /\ redis' = Expire(redis, now + 1)
          /\ UNCHANGED <<worker, reaper, sweeps, client>>
     ELSE /\ now' = now
          /\ client' = [client EXCEPT !.deadline = Back(@), !.wake = Back(@)]
          /\ redis' = Expire(BackRedis(redis), now)
          /\ worker' = [m \in MachineIds |-> BackWorker(worker[m])]
          /\ reaper' = [reaper EXCEPT !.timeouts = [i \in TimerIds |-> Back(@[i])]]
          /\ sweeps' = [k \in SweepIds |-> BackSweep(sweeps[k])]
  /\ UNCHANGED <<machines, calls, agent, hist>>

WorkerLive(m) ==
  \/ WorkerMain(m) \/ HbTick(m) \/ TaskReturns(m) \/ TaskThrows(m)
  \/ Crash(m) \/ RedisApply(m, TRUE)

NextLive ==
  \/ TickLive
  \/ \E m \in MachineIds : WorkerLive(m) \/ PlatformStep(m)
  \/ \E i \in TimerIds : TimerFire(i)
  \/ \E k \in SweepIds : SweepStepOf(k)

\* The event loops run what is due, time passes, Redis answers; a list
\* request and a stop request that are issued again and again succeed in the
\* end.
FairLive ==
  /\ WF_vars(TickLive)
  /\ \A i \in TimerIds : WF_vars(TimerFire(i))
  /\ \A m \in MachineIds : WF_vars(HbTick(m)) /\ WF_vars(RedisApply(m, TRUE))
  /\ \A k \in SweepIds :
       /\ SF_vars(ListReply(k))
       /\ \A m \in MachineIds :
            /\ WF_vars(EvalGetHb(k, m)) /\ WF_vars(EvalGetSt(k, m))
            /\ SF_vars(StopReply(k, m, TRUE)) /\ WF_vars(EvalDel(k, m))

SpecLive == Init /\ [][NextLive]_vars /\ FairLive

\* SpecPoll: a client with any options calls pollUntilDone at any time; the
\* status endpoint answers as it likes or fails.  The clock is that of
\* SpecLive.  Sleeps end when due, time passes, and every status request is
\* answered or fails in the end.
StatusSettles ==
  \/ \E st \in {"processing", "idle", "done", "error"} : StatusReply(st)
  \/ StatusFails

InitPoll ==
  /\ now = 0
  /\ redis = NoRedis
  /\ machines = [m \in MachineIds |-> [name |-> "s1", state |-> "none"]]
  /\ worker = [m \in MachineIds |-> NoWorker]
  /\ reaper = NewReaper
  /\ sweeps = [k \in SweepIds |-> IdleSweep]
  /\ calls = [c \in Callers |-> NewCall]
  /\ agent = NoAgent
  /\ hist = NoHist
  /\ \E d \in PollTimeouts, i \in PollIntervals, x \in MaxPollIntervals :
       client = [NoClient EXCEPT
                   !.opts = [timeout |-> d, interval |-> i, max |-> x]]

NextPoll == TickLive \/ PollCall \/ SleepDone \/ StatusSettles

FairPoll == WF_vars(TickLive) /\ WF_vars(SleepDone) /\ WF_vars(StatusSettles)

SpecPoll == InitPoll /\ [][NextPoll]_vars /\ FairPoll

\* SpecAgent: the agent server of one sandbox takes requests in any order
\* and at any time, well-formed or not; the SDK query of an accepted message
\* ends in the end, with a result or by throwing.
QuerySettles ==
  \/ \E result \in Results : QueryReturns(result)
  \/ \E msg \in ErrorMessages : QueryThrows(msg)

InitAgent ==
  /\ now = 0
  /\ redis = NoRedis
  /\ machines = [m \in MachineIds |-> [name |-> "s1", state |-> "none"]]
  /\ worker = [m \in MachineIds |-> NoWorker]
  /\ reaper = NewReaper
  /\ sweeps = [k \in SweepIds |-> IdleSweep]
  /\ calls = [c \in Callers |-> NewCall]
  /\ client = NoClient
  /\ agent = NoAgent
  /\ hist = NoHist

NextAgent ==
  \/ \E body \in Bodies : PostMessage(body)
  \/ QuerySettles
  \/ GetStatus

FairAgent == WF_vars(QuerySettles)

SpecAgent == InitAgent /\ [][NextAgent]_vars /\ FairAgent
\* SpecChat: one client of one session calls chat() again and again, each
\* call after the one before has returned or thrown; requests and replies
\* take any time and may be lost; the agent's query ends in the end.
ChatTimeouts == {1, 3}

InitChat ==
  /\ now = 0
  /\ redis = NoRedis
  /\ machines = [m \in MachineIds |-> [name |-> "s1", state |-> "none"]]
  /\ worker = [m \in MachineIds |-> NoWorker]
  /\ reaper = NewReaper
  /\ sweeps = [k \in SweepIds |-> IdleSweep]
  /\ calls = [c \in Callers |-> NewCall]
  /\ agent = NoAgent
  /\ hist = NoHist
  /\ \E d \in ChatTimeouts :
       client = [NoClient EXCEPT
                   !.opts = [timeout |-> d, interval |-> 1, max |-> 2]]

NextChat ==
  \/ TickLive
  \/ \E content \in Contents : ChatCall(content)
  \/ PostArrives \/ PostAck \/ PostFails
  \/ SleepDone \/ ChatStatus \/ StatusFails
  \/ QuerySettles

FairChat ==
  /\ WF_vars(TickLive) /\ WF_vars(SleepDone) /\ WF_vars(QuerySettles)
  /\ WF_vars(PostArrives \/ PostFails) /\ WF_vars(PostAck \/ PostFails)
  /\ WF_vars(ChatStatus \/ StatusFails)

SpecChat == InitChat /\ [][NextChat]_vars /\ FairChat
Evals == {sweeps[k].evals[m] : k \in SweepIds, m \in MachineIds}

\* An evaluation that has read both keys and decided.
Decided(e) == e.pc \in {"stop", "del", "done"}

\* C1: once markDone() or markError() has been called, the reporter issues
\* no further lease write: its timer is stopped, no SETEX is in flight behind
\* its DEL, and no lease write of it is applied after its lease delete.
C1_NoLeaseWriteAfterMark ==
  \A m \in MachineIds :
    LET w == worker[m]
    IN /\ ~w.lateWrite
       /\ w.pc \in {"markDone", "markError", "marked", "closing", "closed", "exited"}
            => w.timer = NoTimer
       /\ \A i, j \in 1..Len(w.queue) :
            i < j /\ w.queue[i] \in {"delD", "delE"} => w.queue[j] # "setex"

\* A reporter that renewed on timer ticks and whose lease delete was applied.
C1_Witness ==
  \E m \in MachineIds :
    /\ worker[m].deleted
    /\ worker[m].lastRenew > worker[m].startedAt
    /\ now > worker[m].lastRenew

\* C2: at most one sweep() of the reaper is executing at any time, whatever
\* the sequence of start() calls, stop() calls and timer firings.
C2_SweepsNeverOverlap ==
  Cardinality({k \in SweepIds : sweeps[k].pc # "idle"}) <= 1

\* C3: the decision of every evaluation follows the priority task_done (status
\* done, lease or not), else heartbeat_lost (no lease), else timeout (elapsed
\* strictly above maxTurnTimeout), else the resource is left untouched: no
\* stop request and no registry delete.
C3_DecisionPriority ==
  \A e \in Evals :
    Decided(e) =>
      /\ e.rawStatus = "done" => e.reason = "task_done"
      /\ e.rawStatus # "done" /\ e.rawHeartbeat = -1 => e.reason = "heartbeat_lost"
      /\ e.rawStatus # "done" /\ e.rawHeartbeat # -1 =>
           IF e.at - e.rawHeartbeat > maxTurnTimeout
           THEN e.reason = "timeout" ELSE e.reason = "none"
      /\ e.reason = "none" => e.pc = "done" /\ e.stopped = "no" /\ ~e.cleaned
      /\ e.reason # "none" => e.pc # "done" \/ e.cleaned

\* An evaluation left a resource untouched whose lease was exactly at budget.
C3_Witness ==
  \E e \in Evals :
    /\ Decided(e)
    /\ e.rawHeartbeat # -1
    /\ e.at - e.rawHeartbeat = maxTurnTimeout
    /\ e.reason = "none"

\* C4: a status record of done or of error makes the resource reclaimed by
\* the sweep that reads it, whatever the lease.
C4_TerminalStatusReclaims ==
  \A e \in Evals :
    Decided(e) /\ e.rawStatus \in {"done", "error"} => e.reason # "none"

\* C5: no evaluation reads the registry between the lease delete and the
\* status write of a markDone() that succeeds.
C5_AtomicTerminalWrite == \A e \in Evals : ~e.obs.torn

\* C6: a sweep that lists a live machine whose worker, its lease written,
\* has called markDone() (no registry command of it having failed) reclaims
\* it with no reason but task_done, and does reclaim it if markDone() had
\* returned.
C6_DoneReclaimedAsTaskDone ==
  \A k \in SweepIds, m \in MachineIds :
    LET e == sweeps[k].evals[m]
    IN Decided(e) /\ e.obs.doneCalled /\ ~hist.regFailed[m] =>
         /\ e.reason \in {"task_done", "none"}
         /\ e.obs.doneReturned => e.reason = "task_done"

\* C7 as claimed: a worker that renewed and then ceased without a terminal
\* status is reclaimed as heartbeat_lost by every sweep that reads after the
\* TTL of its last renewal has run out, and by no sweep that reads before.
C7_HeartbeatLostAtExpiry ==
  \A e \in Evals :
    Decided(e) =>
      /\ e.obs.lease = "expired" => e.reason = "heartbeat_lost"
      /\ e.obs.lease \in {"valid", "cleaned"} => e.reason # "heartbeat_lost"

\* C7 as amended: ... and by no sweep that reads before, unless the cleanup of
\* an earlier reclamation has deleted the lease.
C7_HeartbeatLostAtExpiryOrCleanup ==
  \A e \in Evals :
    Decided(e) =>
      /\ e.obs.lease = "expired" => e.reason = "heartbeat_lost"
      /\ e.obs.lease = "valid" => e.reason # "heartbeat_lost"

\* A sweep reclaimed as heartbeat_lost a worker that had renewed on a timer
\* tick before it ceased.
C7_Witness ==
  \E k \in SweepIds, m \in MachineIds :
    LET e == sweeps[k].evals[m]
    IN /\ Decided(e)
       /\ e.obs.lease = "expired"
       /\ e.reason = "heartbeat_lost"
       /\ worker[m].lastRenew > worker[m].startedAt

\* C8: a worker without terminal status whose lease is present is reclaimed
\* with reason timeout by every sweep that decides more than maxTurnTimeout
\* after the worker started, however recently the lease was renewed.
C8_TimeoutOverridesHeartbeat ==
  \A k \in SweepIds, m \in MachineIds :
    LET e == sweeps[k].evals[m]
    IN Decided(e) /\ e.rawStatus = "nil" /\ e.rawHeartbeat # -1
         /\ e.at - worker[m].startedAt > maxTurnTimeout
       => e.reason = "timeout"

\* A timeout decision on a worker that is still at its task and whose last
\* renewal was applied in the clock unit of the decision.
C8_Witness ==
  \E k \in SweepIds, m \in MachineIds :
    LET e == sweeps[k].evals[m]
    IN /\ e.pc = "stop"
       /\ e.reason = "timeout"
       /\ worker[m].pc = "task"
       /\ worker[m].lastRenew = e.at

\* C9 as claimed: after a failed stop the keys are deleted all the same, and
\* the next sweep that lists the machine selects it again.
C9_CleanupAndRetry ==
  \A e \in Evals :
    /\ e.stopped = "failed" => e.pc = "del" \/ e.cleaned
    /\ Decided(e) /\ e.obs.failedBefore => e.reason # "none"

\* C9 as amended: after a failed stop the keys are deleted all the same, and
\* a later sweep that lists the machine selects it again if the worker has
\* had no lease write applied since that cleanup.
C9_CleanupAndRetryUnlessRenewed ==
  \A e \in Evals :
    /\ e.stopped = "failed" => e.pc = "del" \/ e.cleaned
    /\ Decided(e) /\ e.obs.owed => e.reason # "none"

\* A sweep selects again a machine whose stop failed in an earlier sweep and
\* whose keys that sweep deleted.
C9_Witness ==
  \E e \in Evals : Decided(e) /\ e.obs.owed /\ e.reason # "none"

C12_StatusWrittenOnce ==
  \A m \in MachineIds : Len(hist.statusWrites[m]) <= 1

\* The second of two markDone() calls in succession has returned.
TwiceDone(m) ==
  hist.again[m] /\ worker[m].pc \in {"marked", "closing", "closed"}

\* C13: after markDone() was called twice in succession the
\* status is done and the lease absent, as after the first call, and the
\* second call has written nothing a second time.
C13_MarkDoneTwiceNoDuplicate ==
  \A m \in MachineIds :
    TwiceDone(m) =>
      /\ redis.status[machines[m].name].val = "done"
      /\ redis.status[machines[m].name].val = hist.first[m].status.val
      /\ redis.heartbeat[machines[m].name] = NoLease
      /\ hist.first[m].lease = NoLease
      /\ Len(hist.statusWrites[m]) <= 1

\* The machine is listed by the sweeps.
LiveMachine(m) == machines[m].state \in {"starting", "started"}

\* The worker has finished cleanly, failed, crashed, or run past the budget.
Ceased(m) ==
  \/ worker[m].pc \in {"markDone", "closing", "closed", "markError", "exited",
                      "crashed"}
  \/ worker[m].pc = "task" /\ now - worker[m].startedAt > maxTurnTimeout

\* C14: a live machine whose worker has finished cleanly, failed, crashed or
\* run past maxTurnTimeout does not stay live for ever: a stop of the reaper
\* succeeds for it in the end (unless the platform has stopped it before).
C14_EventualReclamation ==
  \A m \in MachineIds : (LiveMachine(m) /\ Ceased(m)) ~> ~LiveMachine(m)

\* A crashed worker's machine was stopped by a sweep after the stop of an
\* earlier sweep had failed.
C14_Witness ==
  \E k \in SweepIds, m \in MachineIds :
    /\ sweeps[k].evals[m].stopped = "ok"
    /\ hist.stopFailed[m]
    /\ worker[m].pc = "crashed"

\* C15 as claimed: whatever the configuration with heartbeatTtl >
\* heartbeatInterval, the lease is still there when a renewal succeeds after
\* one failed renewal after a successful one.
C15_SingleMissNeverExpires ==
  \A m \in MachineIds : ~hist.gap[m]

\* C15 as amended: ... whatever the configuration with heartbeatTtl >
\* 2 * heartbeatInterval ...
C15_SingleMissNeverExpiresTwice ==
  \A m \in MachineIds :
    hist.cfg.ttl > 2 * hist.cfg.interval => ~hist.gap[m]

\* With heartbeatInterval 1 and heartbeatTtl 3, a renewal that succeeded
\* after one failure found the lease of the renewal before in place.
C15_Witness ==
  \E m \in MachineIds :
    /\ hist.bridged[m]
    /\ hist.cfg = [interval |-> 1, ttl |-> 3]
    /\ worker[m].lastRenew >= 2

\* C16: a lease write that fails changes nothing but its own leaving the
\* commands in flight: the timer stays as it is, no write is issued in its
\* place, the reporter goes on where it was and the registry is untouched.
C16_FailedRenewalNotFatal ==
  [][\A m \in MachineIds :
       RedisApply(m, FALSE) /\ Head(worker[m].queue) = "setex" =>
         /\ worker'[m] = [worker[m] EXCEPT !.queue = Tail(@)]
         /\ redis' = redis]_vars

\* A reporter at its task one of whose lease writes failed has renewed on a
\* later tick.
C16_Witness ==
  \E m \in MachineIds :
    /\ worker[m].pc = "task"
    /\ hist.regFailed[m]
    /\ worker[m].lastRenew > worker[m].startedAt
    /\ worker[m].timer > worker[m].lastRenew

\* C17: a sweep whose list holds no machine in a live state is through
\* with the list reply: no evaluation starts (no GET, no stop request, no
\* DEL is issued), the registry and the machines stay as they are, and the
\* next sweep is scheduled.
C17_EmptySweepNoOp ==
  [][\A k \in SweepIds :
       ListReply(k) /\ (\A m \in MachineIds : ~LiveMachine(m)) =>
         /\ sweeps'[k] = IdleSweep
         /\ redis' = redis
         /\ machines' = machines
         /\ reaper'.timeouts[reaper'.timer] = now + reaperInterval]_vars

\* A sweep found no live machine while the registry held the mapping of a
\* session, and left it there.
C17_Witness ==
  /\ hist.empty
  /\ redis.machine["s1"] # NoMapping
  /\ now < maxTurnTimeout + mappingGrace
  /\ \A k \in SweepIds : sweeps[k] = IdleSweep

\* C18: a live machine whose name lacks the prefix is left alone by every
\* sweep: no GET, stop request or DEL is issued for it, and it stays
\* started, whatever the registry holds under the id its name would give.
C18_ForeignNameIgnored ==
  \A m \in MachineIds :
    machines[m].name = ForeignName =>
      /\ machines[m].state = "started"
      /\ \A k \in SweepIds : sweeps[k].evals[m] = NoEval

\* A sweep that listed the foreign machine and the session's is evaluating
\* the session's, the registry holding the mapping of session s1.
C18_Witness ==
  \E k \in SweepIds, m, o \in MachineIds :
    /\ machines[o].name = ForeignName
    /\ machines[m].name = "s1"
    /\ sweeps[k].evals[m].pc = "stop"
    /\ sweeps[k].evals[o] = NoEval
    /\ redis.machine["s1"] # NoMapping

\* C19: an evaluation starts only for a machine that is started or
\* starting when the list is answered; as stop requests and DELs are issued
\* by evaluations only, none is issued for a machine listed in another
\* state.
C19_OnlyLiveEvaluated ==
  [][\A k \in SweepIds, m \in MachineIds :
       sweeps[k].evals[m].pc = "none" /\ sweeps'[k].evals[m].pc # "none"
         => LiveMachine(m)]_vars

\* After a sweep that listed no live machine while machine 1 was created, a
\* later sweep has selected the machine, then live.
C19_Witness ==
  /\ hist.empty
  /\ \E k \in SweepIds, m \in MachineIds :
       sweeps[k].evals[m].pc \in {"stop", "del"} /\ LiveMachine(m)

\* The keys of session s.
KeysOf(r, s) == <<r.heartbeat[s], r.status[s], r.machine[s]>>

\* C20: a step of an evaluation - its reads, its stop request, its cleanup -
\* leaves the lease, the status and the mapping of every session but its
\* machine's own as they are.
C20_OwnKeysOnly ==
  [][\A k \in SweepIds, m \in MachineIds :
       EvalGetHb(k, m) \/ EvalGetSt(k, m) \/ StopReply(k, m, TRUE)
         \/ StopReply(k, m, FALSE) \/ EvalDel(k, m)
       => \A s \in Sessions \ {sessionId(machines[m].name)} :
            KeysOf(redis', s) = KeysOf(redis, s)]_vars

\* One sweep evaluates both machines: the cleanup for s1 is applied, its
\* keys are gone, and the lease and the mapping of s2 are in place.
C20_Witness ==
  \E k \in SweepIds :
    /\ sweeps[k].evals[1].cleaned
    /\ sweeps[k].evals[2].pc \notin {"none", "done"}
    /\ KeysOf(redis, "s1") = <<NoLease, NoStatus, NoMapping>>
    /\ redis.heartbeat["s2"] # NoLease
    /\ redis.machine["s2"] # NoMapping

\* A key of the registry is, after the step, as before it or absent.
KeptOrGone(r, q, s) ==
  /\ q.heartbeat[s] \in {r.heartbeat[s], NoLease}
  /\ q.status[s] \in {r.status[s], NoStatus}
  /\ q.machine[s] \in {r.machine[s], NoMapping}

\* C21: a step of the reaper (a timer callback, a list reply, a step of an
\* evaluation) sets no key of the registry: each key is afterwards as before
\* or deleted; and a status record of done or error comes into existence only
\* by Redis applying the SET that the markDone() or markError() of the
\* session's own worker issued.
C21_ReaperNeverSets ==
  [][\A s \in Sessions :
       /\ sweeps' # sweeps \/ reaper' # reaper => KeptOrGone(redis, redis', s)
       /\ redis'.status[s] # redis.status[s] /\ redis'.status[s] # NoStatus =>
            \E m \in MachineIds :
              /\ machines[m].name = s
              /\ worker[m].queue # <<>>
              /\ hist'.statusWrites[m] =
                   Append(hist.statusWrites[m], Head(worker[m].queue))
              /\ \/ Head(worker[m].queue) = "setD" /\ redis'.status[s].val = "done"
                 \/ Head(worker[m].queue) = "setE" /\ redis'.status[s].val = "error"
              /\ sweeps' = sweeps]_vars

\* A sweep has reclaimed the machine of a worker that never called
\* markDone() or markError(), its cleanup is applied, and the session has no
\* status record.
C21_Witness ==
  \E k \in SweepIds, m \in MachineIds :
    /\ sweeps[k].evals[m].cleaned
    /\ worker[m].pc \in {"task", "crashed"}
    /\ worker[m].lastRenew >= 0
    /\ hist.statusWrites[m] = <<>>
    /\ redis.status[machines[m].name] = NoStatus

\* The callback has scheduled the next sweep: the loop runs on.
NextSweepScheduled ==
  /\ reaper'.running = reaper.running
  /\ reaper'.timer # 0
  /\ reaper'.timeouts[reaper'.timer] = now + reaperInterval
  /\ \A i \in TimerIds \ {reaper'.timer} : reaper'.timeouts[i] = reaper.timeouts[i]

\* C22: a list call that fails ends its sweep with nothing evaluated, no stop
\* request and no registry command issued; a registry read that fails ends
\* its evaluation without a decision; in both cases the registry and the
\* machines stay as they are, the loop keeps running and the next sweep is
\* scheduled, once per sweep.
C22_FailureAbortsCycleOnly ==
  [][\A k \in SweepIds :
       /\ ListFails(k) =>
            /\ sweeps'[k].pc = "idle"
            /\ sweeps'[k].evals = IdleSweep.evals
            /\ redis' = redis /\ machines' = machines
            /\ NextSweepScheduled
       /\ \A m \in MachineIds :
            EvalGetFails(k, m) =>
              /\ sweeps'[k].evals[m].reason = "none"
              /\ sweeps'[k].evals[m].stopped = "no"
              /\ ~sweeps'[k].evals[m].cleaned
              /\ redis' = redis /\ machines' = machines
              /\ IF sweeps[k].err = "none" THEN NextSweepScheduled
                 ELSE reaper' = reaper]_vars

\* A registry read of a sweep failed while another evaluation of it was in
\* flight; the sweep scheduled by that failure ran and its list call failed;
\* the sweep after it is scheduled.
C22_Witness ==
  \E k, j \in SweepIds :
    /\ sweeps[k].pc = "eval" /\ sweeps[k].err = "read"
    /\ sweeps[j].pc = "idle" /\ sweeps[j].err = "list"
    /\ reaper.running
    /\ \E i \in TimerIds : reaper.timeouts[i] > now

\* C23: while the last call on the reaper was stop() no sweep begins: a
\* sweep that was in flight finishes, and the timer its callback sets fires
\* without sweeping and without scheduling another; a stop() that follows a
\* stop() begins nothing, sets no timer, and changes nothing at all when no
\* timer is set.
C23_StopIsFinal ==
  [][/\ hist.stopped =>
          \A k \in SweepIds : sweeps[k].pc = "idle" => sweeps'[k].pc = "idle"
     /\ hist.stopped =>
          \A i \in TimerIds :
            TimerFire(i) => sweeps' = sweeps
                            /\ \A j \in TimerIds : reaper'.timeouts[j] \in
                                 {reaper.timeouts[j], NoTimer}
     /\ hist.stopped /\ StopCall =>
          /\ ~reaper'.running
          /\ sweeps' = sweeps
          /\ \A j \in TimerIds :
               reaper'.timeouts[j] \in {reaper.timeouts[j], NoTimer}
          /\ reaper.timer = 0 => reaper' = reaper]_vars

\* stop() was called while a sweep was in flight; the sweep has finished and
\* its callback has set a timer, which is pending.
C23_Witness ==
  /\ hist.stopped
  /\ ~reaper.running
  /\ reaper.timer # 0
  /\ reaper.timeouts[reaper.timer] # NoTimer
  /\ \E k \in SweepIds : sweeps[k].pc = "idle" /\ sweeps[k].evals[1].cleaned

\* C24: a close() called on a reporter that was closed before, after
\* markDone(), raises no error, leaves the timer stopped and issues no
\* registry write.
C24_CloseIdempotent ==
  \A m \in MachineIds :
    /\ hist.reclose[m] # "raised"
    /\ hist.reclose[m] # "no" /\ ~hist.again[m] =>
         /\ worker[m].timer = NoTimer
         /\ worker[m].queue = <<>>

\* The poll call is inside its loop / is over.
Polling == client.pc \in {"sleep", "get"}
PollOver == client.pc \in {"returned", "failed"}

\* C25 as claimed: the wait returns only on a reply of done, fails otherwise
\* only on a reply of error or, the deadline reached, with the timeout error;
\* and it does end.
C25_WaitEndsDoneOrTimeout ==
  /\ [](/\ client.pc = "returned" => client.result = "done" /\ client.seen = "done"
        /\ client.pc = "failed" =>
             \/ client.result = "agent_error" /\ client.seen = "error"
             \/ client.result = "timeout" /\ now >= client.deadline)
  /\ Polling ~> PollOver

\* C25 as amended: ... or with the error of a status request that failed.
C25_WaitEnds ==
  /\ [](/\ client.pc = "returned" => client.result = "done" /\ client.seen = "done"
        /\ client.pc = "failed" =>
             \/ client.result = "agent_error" /\ client.seen = "error"
             \/ client.result = "timeout" /\ now >= client.deadline
                  /\ client.seen \notin {"done", "error"}
             \/ client.result = "http_error")
  /\ Polling ~> PollOver

\* A wait that polled twice without a terminal reply has failed with the
\* timeout error.
C25_Witness ==
  /\ client.pc = "failed"
  /\ client.result = "timeout"
  /\ client.seen = "processing"
  /\ Len(client.waits) = 2

\* C26: no status request is issued after the deadline, and no sleep is
\* pending after it.
C26_NoPollPastDeadline ==
  /\ ~client.late
  /\ client.pc = "sleep" => now <= client.deadline

\* C28: for every configuration of the options each wait is at most
\* maxPollIntervalMs, and no wait is shorter than the one before it.
C28_WaitsCappedAndMonotone ==
  /\ \A i \in 1..Len(client.waits) : client.waits[i] <= client.opts.max
  /\ Len(client.waits) = 2 => client.waits[1] <= client.waits[2]

\* C29: with the registry within reach, when main is past markDone() (the
\* task returned) the status done has been written, once and nothing else;
\* when it has exited after markError() (the task threw) the status error
\* has; and in both cases the timer is stopped, the lease delete has been
\* applied and the lease is absent.
C29_TerminalStatusBeforeExit ==
  \A m \in MachineIds :
    LET w == worker[m]
    IN /\ w.pc \in {"closing", "closed"} => hist.statusWrites[m] = <<"setD">>
       /\ w.pc = "exited" => hist.statusWrites[m] = <<"setE">>
       /\ w.pc \in {"closing", "closed", "exited"} =>
            /\ w.timer = NoTimer
            /\ w.deleted
            /\ redis.heartbeat[machines[m].name] = NoLease

\* A worker that renewed its lease on a tick, whose task threw, has exited:
\* the status record says error and the lease is gone.
C29_Witness ==
  \E m \in MachineIds :
    /\ worker[m].pc = "exited"
    /\ worker[m].lastRenew > worker[m].startedAt
    /\ redis.status[machines[m].name].val = "error"
    /\ redis.heartbeat[machines[m].name] = NoLease

\* The worker of machine m is at its task, no registry command of it has
\* failed, no terminal status is written, and it has run for at most
\* maxTurnTimeout.
Healthy(m) ==
  /\ worker[m].pc = "task"
  /\ worker[m].timer # NoTimer
  /\ ~hist.regFailed[m]
  /\ hist.statusWrites[m] = <<>>
  /\ now - worker[m].startedAt <= maxTurnTimeout

\* C30: while a worker is healthy no sweep has selected its machine: no stop
\* request is issued or answered for it and no cleanup deletes its keys,
\* however the start of the machine, the first lease write and the sweeps
\* interleave.
C30_NoFalseReclamation ==
  \A m \in MachineIds :
    Healthy(m) =>
      /\ machines[m].state # "stopping"
      /\ \A k \in SweepIds : sweeps[k].evals[m].reason = "none"

\* C31: the startedAt of a reporter does not change once it is constructed,
\* and every lease write of it that is applied carries that value: a
\* renewal moves the expiry to heartbeatTtl from now and leaves the
\* started_at of the lease it replaces as it is.
C31_StartedAtFixed ==
  [][\A m \in MachineIds :
       /\ worker[m].pc # "none" => worker'[m].startedAt = worker[m].startedAt
       /\ RedisApply(m, TRUE) /\ Head(worker[m].queue) = "setex" =>
            LET s == machines[m].name
            IN /\ redis'.heartbeat[s].started_at = worker[m].startedAt
               /\ redis'.heartbeat[s].exp = now + heartbeatTtl
               /\ redis.heartbeat[s] # NoLease =>
                    redis'.heartbeat[s].started_at =
                      redis.heartbeat[s].started_at]_vars

\* A lease renewed two ticks after the reporter started still carries the
\* start time, and expires heartbeatTtl after the renewal.
C31_Witness ==
  \E m \in MachineIds :
    LET s == machines[m].name
    IN /\ worker[m].pc = "task"
       /\ worker[m].lastRenew >= worker[m].startedAt + 2 * heartbeatInterval
       /\ redis.heartbeat[s].started_at = worker[m].startedAt
       /\ redis.heartbeat[s].exp = worker[m].lastRenew + heartbeatTtl

\* The timeouts pending and the sweeps in flight.
PendingTimers == {i \in TimerIds : reaper.timeouts[i] # NoTimer}
SweepsInFlight == {k \in SweepIds : sweeps[k].pc # "idle"}

\* C32: a start() on a running reaper changes nothing; and as long as no
\* stop() has been called, a running reaper has exactly one timer pending or
\* one sweep in flight, never both and never two of either.
C32_StartIdempotent ==
  [][/\ StartCall /\ reaper.running => reaper' = reaper /\ sweeps' = sweeps
     /\ reaper'.running /\ ~hist'.everStopped =>
          Cardinality({i \in TimerIds : reaper'.timeouts[i] # NoTimer})
            + Cardinality({k \in SweepIds : sweeps'[k].pc # "idle"}) = 1]_vars

\* start() was called on a running reaper, no stop() ever; a sweep is in
\* flight and no timer is pending.
C32_Witness ==
  /\ hist.startAgain
  /\ ~hist.everStopped
  /\ reaper.running
  /\ PendingTimers = {}
  /\ Cardinality(SweepsInFlight) = 1
  /\ now >= 2 * reaperInterval

\* C33: an evaluation that fails (a registry read or the registry delete)
\* leaves the other evaluations of its sweep as they are; after sweep() has
\* thrown, each of them still takes its next step, decides as
\* evaluateMachine decides, sends the stop request if the machine is
\* eligible and then deletes the session's records.
C33_FailureSparesOthers ==
  [][\A k \in SweepIds, m \in MachineIds :
       LET e == sweeps[k].evals[m]
           f == sweeps'[k].evals[m]
           s == sessionId(machines[m].name)
       IN /\ e.pc # "failed" /\ f.pc = "failed" =>
               \A n \in MachineIds \ {m} :
                 sweeps'[k].evals[n] = sweeps[k].evals[n]
          /\ sweeps[k].err # "none" =>
               /\ e.pc = "getHb" => ENABLED EvalGetHb(k, m)
               /\ e.pc = "getSt" => ENABLED EvalGetSt(k, m)
               /\ e.pc = "stop" => ENABLED StopReply(k, m, TRUE)
               /\ e.pc = "del" => ENABLED EvalDel(k, m)
               /\ e.pc = "getSt" /\ f.pc \notin {"getSt", "failed"} =>
                    /\ f.reason = Decide(redis.status[s].val, e.rawHeartbeat, now)
                    /\ f.pc = IF f.reason = "none" THEN "done" ELSE "stop"
               /\ e.pc = "stop" /\ f.pc # "stop" => f.pc = "del"
               /\ e.pc = "del" /\ f.pc \notin {"del", "failed"} =>
                    /\ f.pc = "done" /\ f.cleaned
                    /\ redis' = DelAll(redis, s)]_vars

\* One evaluation of a sweep failed; another of the same sweep decided after
\* that, stopped its machine and deleted the session's records.
C33_Witness ==
  \E k \in SweepIds, m, n \in MachineIds :
    /\ m # n
    /\ sweeps[k].err = "read"
    /\ sweeps[k].evals[m].pc = "failed"
    /\ sweeps[k].evals[n].obs.orphan
    /\ sweeps[k].evals[n].reason = "heartbeat_lost"
    /\ sweeps[k].evals[n].stopped = "ok"
    /\ sweeps[k].evals[n].cleaned
    /\ machines[n].state \in {"stopping", "stopped", "destroyed"}
    /\ redis.machine[machines[n].name] = NoMapping

\* What a POST /message leaves alone when it is rejected.
Untouched ==
  /\ agent'.history = agent.history
  /\ agent'.lastError = agent.lastError
  /\ agent'.processing = agent.processing
  /\ agent'.query = agent.query

\* The POST was accepted: exactly one user turn with its content is appended
\* and the reply carries that turn's index.
Accepted(content) ==
  /\ Len(agent'.history) = Len(agent.history) + 1
  /\ SubSeq(agent'.history, 1, Len(agent.history)) = agent.history
  /\ agent'.history[Len(agent'.history)].role = "user"
  /\ agent'.history[Len(agent'.history)].content = content
  /\ agent'.response.message_index = Len(agent'.history) - 1
  /\ agent'.processing

\* C34 as stated: every POST /message that arrives while processing is true
\* gets 409 and changes nothing; every POST with empty content gets 400 and
\* changes nothing; an accepted POST appends exactly one user turn and
\* returns its index.
C34_OneMessageAtATime ==
  [][\A body \in Bodies :
       PostMessage(body) =>
         /\ agent.processing => agent'.response.code = 409 /\ Untouched
         /\ body = "" => agent'.response.code = 400 /\ Untouched
         /\ agent'.response.code = 200 => Accepted(body)]_vars

\* C34, amended: the checks run in the order body, content, processing.  A
\* POST whose body does not parse gets 500, one with empty content 400,
\* both whether or not a message is in process; a POST with content that
\* arrives while processing is true gets 409; all three change nothing.
\* Any other POST is accepted, which happens only while no message is in
\* process: it appends exactly one user turn and returns its index.
C34_OneMessageAtATimeByOrder ==
  [][\A body \in Bodies :
       PostMessage(body) =>
         /\ body = "malformed" => agent'.response.code = 500 /\ Untouched
         /\ body = "" => agent'.response.code = 400 /\ Untouched
         /\ truthy(body) /\ body # "malformed" /\ agent.processing =>
              agent'.response.code = 409 /\ Untouched
         /\ truthy(body) /\ body # "malformed" /\ ~agent.processing =>
              /\ agent'.response.code = 200
              /\ agent.query = "none"
              /\ Accepted(body)]_vars

\* A second message is in process and a POST with content has just been
\* turned away with 409.
C34_Witness ==
  /\ agent.processing
  /\ agent.response.code = 409
  /\ Len(agent.history) = 3
  /\ agent.history[3].role = "user"

\* C35: an accepted message leaves the processing state once its query has
\* ended, and it leaves it in exactly one of two ways: its assistant turn is
\* appended and lastError is null, or lastError is set and no turn is
\* appended; processing is true exactly while the query runs.
C35_ProcessingEnds ==
  /\ (agent.processing ~> ~agent.processing)
  /\ [](agent.processing <=> agent.query = "running")
  /\ [][agent.processing /\ ~agent'.processing =>
          LET n == Len(agent.history)
              answered == /\ Len(agent'.history) = n + 1
                          /\ SubSeq(agent'.history, 1, n) = agent.history
                          /\ agent'.history[n + 1].role = "assistant"
                          /\ agent'.history[n + 1].traceId = agent.currentTraceId
                          /\ agent'.lastError = Null
              failed == /\ agent'.history = agent.history
                        /\ agent'.lastError # Null
          IN (answered \/ failed) /\ ~(answered /\ failed)]_vars

\* A first message was answered and a second one failed: lastError is set
\* and the history ends with the second message's user turn.
C35_Witness ==
  /\ ~agent.processing
  /\ agent.lastError # Null
  /\ agent.failed = 3
  /\ Len(agent.history) = 3
  /\ agent.history[2].role = "assistant"
  /\ agent.history[3].role = "user"

\* The most recent accepted message failed: the error in lastError is that
\* of the message of the last user turn.
LastMessageFailed ==
  /\ agent.failed # 0
  /\ agent.failed = Len(agent.history)
  /\ ~agent.processing

\* C36: GET /status answers processing while a message is in process;
\* otherwise error with lastError if lastError is set; otherwise done with
\* the content of the last turn if that is an assistant turn; otherwise
\* idle.  It never answers done while processing is true or while the most
\* recent accepted message failed.
C36_StatusByPriority ==
  [][GetStatus =>
       LET n == Len(agent.history)
           r == agent'.reply
       IN /\ r.status =
               IF agent.processing THEN "processing"
               ELSE IF agent.lastError # Null THEN "error"
               ELSE IF n > 0 /\ agent.history[n].role = "assistant" THEN "done"
               ELSE "idle"
          /\ r.status = "error" => r.error = agent.lastError
          /\ r.status = "done" =>
               /\ r.content = agent.history[n].content
               /\ ~agent.processing
               /\ ~LastMessageFailed]_vars

\* C37: a poll of chat() that observes done or error observes the outcome of
\* the message this chat() sent; what chat() returns is the content of the
\* assistant turn pushed for that message, and an agent error it throws is
\* that message's error.
C37_NoStaleOutcome ==
  /\ client.seen \in {"done", "error"} =>
       /\ client.sent # 0
       /\ client.got = client.sent
  /\ client.pc = "returned" =>
       /\ client.seen = "done"
       /\ Len(agent.history) > client.sent
       /\ agent.history[client.sent].role = "user"
       /\ agent.history[client.sent].content = client.content
       /\ agent.history[client.sent + 1].role = "assistant"
       /\ agent.history[client.sent + 1].traceId = client.sent
       /\ client.text = agent.history[client.sent + 1].content
  /\ client.result = "agent_error" =>
       /\ client.seen = "error"
       /\ agent.failed = client.sent
       /\ Len(agent.history) = client.sent

\* A first message was answered "r"; the second chat() has returned the
\* empty reply of its own message.
C37_Witness ==
  /\ client.pc = "returned"
  /\ client.sent = 3
  /\ client.text = ""
  /\ Len(agent.history) = 4
  /\ agent.history[2].content = "r"

\* The messages answered: the assistant turns of history.  The messages
\* whose processing has ended, answered or failed: the user turns, less the
\* one in process.
Answered ==
  Cardinality({i \in 1..Len(agent.history) : agent.history[i].role = "assistant"})
Ended ==
  Cardinality({i \in 1..Len(agent.history) : agent.history[i].role = "user"})
    - (IF agent.processing THEN 1 ELSE 0)

\* C38: the reported message_count, floor(turns / 2), is the number of
\* messages accepted and fully processed, whether that counts the messages
\* answered or the messages whose processing has ended.
C38_MessageCount ==
  \/ getSessionStatus(agent).message_count = Answered
  \/ getSessionStatus(agent).message_count = Ended

====
